---- MODULE Spec2Model ----
(***************************************************************************)
(* Model of the event-consumption core of the restor-octo-giggle JS        *)
(* driver: EventListener (connection manager with reconnect timers),       *)
(* the line splitter / EventMessage decoder it feeds, and the              *)
(* RegistrationClient handshake.                                           *)
(*                                                                         *)
(* Text is modelled as a sequence of one-character strings.                *)
(* net.Socket is modelled by the events Node emits: 'connect', 'data',     *)
(* 'error' directly followed by 'close', and 'close' after destroy().      *)
(***************************************************************************)
EXTENDS Integers, Sequences, FiniteSets, TLC

VARIABLES
    socks,              \* every net.Socket an EventListener.start() created
    socket,             \* EventListener.socket: index into socks, 0 = null
    isListening,        \* EventListener.isListening
    reconnectAttempts,  \* EventListener.reconnectAttempts
    timers,             \* pending setTimeout callbacks of handleReconnect
    listeners,          \* EventListener.listeners: event name -> callbacks
    received,           \* history: the reads, in order: [sock, data]
    decoded,            \* history: the records handed to dispatch: [sock, rec]
    delivered,          \* history: callback invocations, in order
    stopMark,           \* history: kind of the last stop() since the last caller start()
    autoAttempts,       \* history: sockets opened by timers since the last successful connect
    callerOps,          \* history: number of caller start/stop calls made
    subOps,             \* history: number of caller on/off calls made
    lastCall,           \* history: the caller's last call, the state before and after it
    handles,            \* the unsubscribe functions on() returned: their (event name, callback)
    limits,             \* bounds of the run: sockets and caller calls it may use
    regCall,            \* RegistrationClient: the call in progress, its arguments
    regSock,            \* the call's socket `client`
    responseData,       \* the call's closure variable responseData
    regResolved,        \* the call's closure variable resolved
    regWritten,         \* the lines the call wrote with client.write()
    regPromise,         \* the promise the call returned
    regReads,           \* history: the reads of the call: [data, afterCmd]
    codec,              \* EventMessage: the arguments of create(), its text, the decoded record
    sendCall,           \* TcpProtocol.send: the call in progress: socket, closure, promise
    driver              \* Driver: its eventListener field and the call in progress

vars == <<socks, socket, isListening, reconnectAttempts, timers, listeners,
          received, decoded, delivered, stopMark, autoAttempts, callerOps, subOps, limits,
          lastCall, handles,
          regCall, regSock, responseData, regResolved, regWritten, regPromise, regReads,
          codec, sendCall, driver>>

listenerVars == <<socks, socket, isListening, reconnectAttempts, timers, listeners,
                  received, decoded, delivered, stopMark, autoAttempts, callerOps, subOps,
                  lastCall, handles>>

regVars == <<regCall, regSock, responseData, regResolved, regWritten, regPromise, regReads>>

codecVars == <<codec>>

driverVars == <<sendCall, driver>>

----------------------------------------------------------------------------
(* Bounds *)

MaxSockets == 3          \* sockets one run of Spec may create
MaxCallerOps == 3        \* caller calls (start, stop) in one run of Spec
MaxRetrySockets == 8     \* sockets one run of SpecRetry may create
MaxRetryStarts == 2      \* caller start() calls in one run of SpecRetry
MaxDataSockets == 2      \* sockets one run of SpecData may create
MaxSubOps == 2           \* on/off calls in one run of SpecData
MaxReads == 2            \* reads ('data' events) in one run of SpecData
MaxRegReads == 3         \* reads of one registration call in SpecReg
MaxDispatchSubs == 2     \* on/off calls in one run of SpecDispatch
MaxSubCalls == 3         \* subscription calls in one run of SpecSubs
MaxCallSockets == 2      \* sockets one run of SpecCalls may create
MaxCalls == 2            \* caller start/stop calls in one run of SpecCalls
MaxMsgLen == 2           \* characters of the msg argument in SpecCodec
MaxNameLen == 1          \* characters of the event name argument in SpecCodec
MaxLineLen == 3          \* characters of a line in SpecDecode
MaxBatch == 2            \* messages of one sendBatch() call in SpecSend
MaxDriverSockets == 2    \* listener sockets in SpecDriver
MaxDriverReads == 2      \* chunks the registration server sends in SpecDriver
MaxBlankReads == 3       \* reads in SpecBlank
MaxReplaced == 2         \* listeners a driver replaces in SpecListeners
MaxSurviveReads == 2     \* reads in SpecSurvive
MaxSurviveSubs == 2      \* subscription calls in SpecSurvive
MaxDispatchReads == 2    \* reads in one run of SpecDispatch

(* Program constants *)

maxReconnectAttempts == 5
reconnectDelay == 1000

----------------------------------------------------------------------------
(* Text: JavaScript string operations on sequences of characters *)

WhiteSpace == {" ", "\t", "\n", "\r"}

RECURSIVE TrimStart(_)
TrimStart(s) ==
    IF s # <<>> /\ Head(s) \in WhiteSpace THEN TrimStart(Tail(s)) ELSE s

RECURSIVE TrimEnd(_)
TrimEnd(s) ==
    IF s # <<>> /\ s[Len(s)] \in WhiteSpace
    THEN TrimEnd(SubSeq(s, 1, Len(s) - 1))
    ELSE s

\* String.prototype.trim
Trim(s) == TrimEnd(TrimStart(s))

\* s.startsWith(p)
StartsWith(s, p) == Len(s) >= Len(p) /\ SubSeq(s, 1, Len(p)) = p

\* s.endsWith(p)
EndsWith(s, p) ==
    Len(s) >= Len(p) /\ SubSeq(s, Len(s) - Len(p) + 1, Len(s)) = p

\* s.includes(p)
Includes(s, p) ==
    \E i \in 1..(Len(s) - Len(p) + 1) : SubSeq(s, i, i + Len(p) - 1) = p

\* s.substring(n), n counted from 0
Substring(s, n) == SubSeq(s, n + 1, Len(s))

\* s.split(c) for a one-character separator c: the segments between the
\* separators, empty ones included; a text without c is one segment.
RECURSIVE SplitFrom(_, _, _)
SplitFrom(s, c, cur) ==
    IF s = <<>> THEN <<cur>>
    ELSE IF Head(s) = c THEN <<cur>> \o SplitFrom(Tail(s), c, <<>>)
    ELSE SplitFrom(Tail(s), c, Append(cur, Head(s)))

Split(s, c) == SplitFrom(s, c, <<>>)

\* parts.join(c)
RECURSIVE Join(_, _)
Join(parts, c) ==
    IF parts = <<>> THEN <<>>
    ELSE IF Len(parts) = 1 THEN parts[1]
    ELSE parts[1] \o <<c>> \o Join(Tail(parts), c)

\* lines.filter(line => line.trim().length > 0)
RECURSIVE NonBlank(_)
NonBlank(lines) ==
    IF lines = <<>> THEN <<>>
    ELSE (IF Len(Trim(Head(lines))) > 0 THEN <<Head(lines)>> ELSE <<>>)
             \o NonBlank(Tail(lines))

----------------------------------------------------------------------------
(* JSON.parse: values are tagged records                                   *)
(*   [t |-> "str", s |-> chars]   [t |-> "num", s |-> chars]               *)
(*   [t |-> "lit", s |-> chars]   (true, false, null)                      *)
(*   [t |-> "obj", m |-> <<[k |-> chars, v |-> value], ...>>]              *)
(*   [t |-> "arr", a |-> <<value, ...>>]     [t |-> "undef"]               *)
(* A parse step returns [ok, v, next]: next is the position after v.       *)

Str(s) == [t |-> "str", s |-> s]
Undefined == [t |-> "undef"]

Digits == {"0", "1", "2", "3", "4", "5", "6", "7", "8", "9"}
ParseFail == [ok |-> FALSE, v |-> Undefined, next |-> 0]

RECURSIVE SkipWS(_, _)
SkipWS(s, i) ==
    IF i <= Len(s) /\ s[i] \in WhiteSpace THEN SkipWS(s, i + 1) ELSE i

RECURSIVE SkipDigits(_, _)
SkipDigits(s, i) ==
    IF i <= Len(s) /\ s[i] \in Digits THEN SkipDigits(s, i + 1) ELSE i

\* A string starting at the quote s[i]: no raw control characters, the
\* escapes \" \\ \/ \n \t \r.
RECURSIVE ParseStringFrom(_, _, _)
ParseStringFrom(s, i, acc) ==
    IF i > Len(s) THEN ParseFail
    ELSE IF s[i] = "\"" THEN [ok |-> TRUE, v |-> Str(acc), next |-> i + 1]
    ELSE IF s[i] \in {"\n", "\t", "\r"} THEN ParseFail
    ELSE IF s[i] = "\\" THEN
        IF i + 1 > Len(s) THEN ParseFail
        ELSE IF s[i + 1] \in {"\"", "\\", "/"}
             THEN ParseStringFrom(s, i + 2, Append(acc, s[i + 1]))
        ELSE IF s[i + 1] = "n" THEN ParseStringFrom(s, i + 2, Append(acc, "\n"))
        ELSE IF s[i + 1] = "t" THEN ParseStringFrom(s, i + 2, Append(acc, "\t"))
        ELSE IF s[i + 1] = "r" THEN ParseStringFrom(s, i + 2, Append(acc, "\r"))
        ELSE ParseFail
    ELSE ParseStringFrom(s, i + 1, Append(acc, s[i]))

\* A number starting at s[i]: -? (0 | [1-9][0-9]*) (. [0-9]+)?
ParseNumber(s, i) ==
    LET i1 == IF s[i] = "-" THEN i + 1 ELSE i
        i2 == IF i1 <= Len(s) /\ s[i1] = "0" THEN i1 + 1 ELSE SkipDigits(s, i1)
        i3 == IF i2 + 1 <= Len(s) /\ s[i2] = "." /\ s[i2 + 1] \in Digits
              THEN SkipDigits(s, i2 + 1)
              ELSE i2
    IN IF i2 = i1 \/ (i3 <= Len(s) /\ s[i3] = ".")
       THEN ParseFail
       ELSE [ok |-> TRUE, v |-> [t |-> "num", s |-> SubSeq(s, i, i3 - 1)], next |-> i3]

ParseLiteral(s, i, word) ==
    IF i + Len(word) - 1 <= Len(s) /\ SubSeq(s, i, i + Len(word) - 1) = word
    THEN [ok |-> TRUE, v |-> [t |-> "lit", s |-> word], next |-> i + Len(word)]
    ELSE ParseFail

RECURSIVE ParseValue(_, _)
RECURSIVE ParseMembers(_, _, _)
RECURSIVE ParseElements(_, _, _)

\* The members of an object after "{" or ",": "key" : value, then "," or "}".
ParseMembers(s, i, acc) ==
    LET k0 == SkipWS(s, i)
    IN IF k0 > Len(s) \/ s[k0] # "\"" THEN ParseFail
       ELSE LET k == ParseStringFrom(s, k0 + 1, <<>>)
            IN IF ~k.ok THEN ParseFail
               ELSE LET c == SkipWS(s, k.next)
                    IN IF c > Len(s) \/ s[c] # ":" THEN ParseFail
                       ELSE LET v == ParseValue(s, c + 1)
                            IN IF ~v.ok THEN ParseFail
                               ELSE LET e == SkipWS(s, v.next)
                                        m == Append(acc, [k |-> k.v.s, v |-> v.v])
                                    IN IF e > Len(s) THEN ParseFail
                                       ELSE IF s[e] = "}"
                                            THEN [ok |-> TRUE, v |-> [t |-> "obj", m |-> m],
                                                  next |-> e + 1]
                                       ELSE IF s[e] = ","
                                            THEN ParseMembers(s, e + 1, m)
                                       ELSE ParseFail

\* The elements of an array after "[" or ",": value, then "," or "]".
ParseElements(s, i, acc) ==
    LET v == ParseValue(s, i)
    IN IF ~v.ok THEN ParseFail
       ELSE LET e == SkipWS(s, v.next)
                a == Append(acc, v.v)
            IN IF e > Len(s) THEN ParseFail
               ELSE IF s[e] = "]"
                    THEN [ok |-> TRUE, v |-> [t |-> "arr", a |-> a], next |-> e + 1]
               ELSE IF s[e] = "," THEN ParseElements(s, e + 1, a)
               ELSE ParseFail

\* One JSON value starting at or after position i.
ParseValue(s, i) ==
    LET j == SkipWS(s, i)
    IN IF j > Len(s) THEN ParseFail
       ELSE IF s[j] = "\"" THEN ParseStringFrom(s, j + 1, <<>>)
       ELSE IF s[j] \in Digits \cup {"-"} THEN ParseNumber(s, j)
       ELSE IF s[j] = "t" THEN ParseLiteral(s, j, <<"t", "r", "u", "e">>)
       ELSE IF s[j] = "f" THEN ParseLiteral(s, j, <<"f", "a", "l", "s", "e">>)
       ELSE IF s[j] = "n" THEN ParseLiteral(s, j, <<"n", "u", "l", "l">>)
       ELSE IF s[j] = "{" THEN
            (LET k == SkipWS(s, j + 1)
             IN IF k <= Len(s) /\ s[k] = "}"
                THEN [ok |-> TRUE, v |-> [t |-> "obj", m |-> <<>>], next |-> k + 1]
                ELSE ParseMembers(s, j + 1, <<>>))
       ELSE IF s[j] = "[" THEN
            (LET k == SkipWS(s, j + 1)
             IN IF k <= Len(s) /\ s[k] = "]"
                THEN [ok |-> TRUE, v |-> [t |-> "arr", a |-> <<>>], next |-> k + 1]
                ELSE ParseElements(s, j + 1, <<>>))
       ELSE ParseFail

\* JSON.parse(text): one value and nothing but white space after it;
\* ok = FALSE stands for the SyntaxError.
JSONParse(s) ==
    LET r == ParseValue(s, 1)
    IN IF r.ok /\ SkipWS(s, r.next) > Len(s) THEN r ELSE ParseFail

\* obj[key] for a parsed value that is not null: the last member of that
\* name of an object, undefined for any other value.
RECURSIVE Lookup(_, _)
Lookup(m, key) ==
    IF m = <<>> THEN Undefined
    ELSE IF m[Len(m)].k = key THEN m[Len(m)].v
    ELSE Lookup(SubSeq(m, 1, Len(m) - 1), key)

Get(v, key) == IF v.t = "obj" THEN Lookup(v.m, key) ELSE Undefined

IsZero(chars) == \A i \in 1..Len(chars) : chars[i] \in {"0", "-", "."}

\* JavaScript truthiness, as used by `x || fallback`
Truthy(v) ==
    CASE v.t = "undef" -> FALSE
      [] v.t = "str"   -> v.s # <<>>
      [] v.t = "num"   -> ~IsZero(v.s)
      [] v.t = "lit"   -> v.s = <<"t", "r", "u", "e">>
      [] OTHER         -> TRUE

----------------------------------------------------------------------------
(* EventMessage *)

DefaultName == <<"d", "e", "f", "a", "u", "l", "t">>
MsgKey == <<"m", "s", "g">>
EventNameKey == <<"e", "v", "e", "n", "t", "_", "n", "a", "m", "e">>

\* EventMessage.fromJSON(json): ok = FALSE stands for the thrown Error
\* (invalid JSON, or a property read on null).
fromJSON(json) ==
    LET p == JSONParse(json)
    IN IF ~p.ok \/ (p.v.t = "lit" /\ p.v.s = <<"n", "u", "l", "l">>)
       THEN [ok |-> FALSE, msg |-> Undefined, event_name |-> Undefined]
       ELSE [ok |-> TRUE,
             msg |-> IF Truthy(Get(p.v, MsgKey)) THEN Get(p.v, MsgKey) ELSE Str(<<>>),
             event_name |-> IF Truthy(Get(p.v, EventNameKey))
                            THEN Get(p.v, EventNameKey)
                            ELSE Str(DefaultName)]

\* A simple format that takes the text between the first two colons as msg.
fromSimpleFormatTwoParts(text) ==
    LET parts == Split(text, ":")
    IN IF Len(parts) >= 2
       THEN [ok |-> TRUE,
             event_name |-> Str(Trim(parts[1])),
             msg |-> Str(Trim(parts[2]))]
       ELSE [ok |-> TRUE, event_name |-> Str(DefaultName), msg |-> Str(Trim(text))]

\* EventMessage.fromSimpleFormat(text)
fromSimpleFormat(text) ==
    LET parts == Split(text, ":")
    IN IF Len(parts) >= 2
       THEN [ok |-> TRUE,
             event_name |-> Str(Trim(parts[1])),
             msg |-> Str(Trim(Join(Tail(parts), ":")))]
       ELSE [ok |-> TRUE, event_name |-> Str(DefaultName), msg |-> Str(Trim(text))]

\* A string written into JSON text with no escaping.
Unescaped(chars) == <<"\"">> \o chars \o <<"\"">>

RECURSIVE Escape(_)
\* The characters of a string as JSON.stringify writes them between quotes.
Escape(chars) ==
    IF chars = <<>> THEN <<>>
    ELSE (CASE Head(chars) = "\"" -> <<"\\", "\"">>
            [] Head(chars) = "\\" -> <<"\\", "\\">>
            [] Head(chars) = "\n" -> <<"\\", "n">>
            [] Head(chars) = "\t" -> <<"\\", "t">>
            [] Head(chars) = "\r" -> <<"\\", "r">>
            [] OTHER -> <<Head(chars)>>) \o Escape(Tail(chars))

\* JSON.stringify of a string
Quoted(chars) == <<"\"">> \o Escape(chars) \o <<"\"">>

\* EventMessage.create(msg, eventName = 'default'): the text
\* {"msg":<msg>,"event_name":<eventName>}; an absent eventName (Undefined)
\* takes the default.
create(msg, eventName) ==
    <<"{">> \o Quoted(MsgKey) \o <<":">> \o Quoted(msg) \o <<",">>
        \o Quoted(EventNameKey) \o <<":">>
        \o Quoted(IF eventName = Undefined THEN DefaultName ELSE eventName.s) \o <<"}">>

\* Decoding without the fallback to the simple format.
DecodeStructuredOnly(line) == fromJSON(line)

\* The decoding step of handleMessage: the structured format, else the
\* simple format.
Decode(line) ==
    IF fromJSON(line).ok THEN fromJSON(line) ELSE fromSimpleFormat(line)

----------------------------------------------------------------------------
(* EventListener: subscriptions and dispatch *)

Wildcard == <<"*">>

\* The event names and callbacks the caller uses.
EventNames == {<<"a">>, Wildcard}
Callbacks == {"f", "g"}

\* new Map()
EmptyMap == [e \in {} |-> <<>>]

\* set.add(cb): a Set keeps insertion order and holds cb once.
SetAdd(set, cb) ==
    IF \E i \in 1..Len(set) : set[i] = cb THEN set ELSE Append(set, cb)

\* set.delete(cb)
RECURSIVE SetDelete(_, _)
SetDelete(set, cb) ==
    IF set = <<>> THEN <<>>
    ELSE (IF Head(set) = cb THEN <<>> ELSE <<Head(set)>>) \o SetDelete(Tail(set), cb)

\* map.delete(key)
MapDelete(map, key) == [e \in DOMAIN map \ {key} |-> map[e]]

\* map.set(key, value)
MapSet(map, key, value) ==
    [e \in DOMAIN map \cup {key} |-> IF e = key THEN value ELSE map[e]]

\* on(eventName, callback), callback a function
onListeners(map, eventName, cb) ==
    LET m == IF eventName \in DOMAIN map THEN map ELSE MapSet(map, eventName, <<>>)
    IN MapSet(m, eventName, SetAdd(m[eventName], cb))

\* off that keeps the key of an event whose last callback it removed.
offKeepsKey(map, eventName, cb) ==
    IF eventName \in DOMAIN map
    THEN MapSet(map, eventName, SetDelete(map[eventName], cb))
    ELSE map

\* off that drops the event with all its callbacks.
offWholeEvent(map, eventName, cb) ==
    IF eventName \in DOMAIN map /\ (\E i \in 1..Len(map[eventName]) : map[eventName][i] = cb)
    THEN MapDelete(map, eventName)
    ELSE map

\* off(eventName, callback)
offListeners(map, eventName, cb) ==
    IF eventName \in DOMAIN map
    THEN LET m == MapSet(map, eventName, SetDelete(map[eventName], cb))
         IN IF Len(m[eventName]) = 0 THEN MapDelete(m, eventName) ELSE m
    ELSE map

\* removeAllListeners(eventName): given = FALSE is the call with no
\* argument; `if (eventName)` takes the empty string for no argument too.
removeAllListenersOf(map, given, eventName) ==
    IF given /\ eventName # <<>> THEN MapDelete(map, eventName) ELSE EmptyMap

\* getSubscribedEvents(): Array.from(this.listeners.keys()), as a set.
getSubscribedEvents == DOMAIN listeners

\* The callbacks that throw when they are called; the others return.
Throwing == {"g"}

\* A loop over the callbacks that a throw ends.
InvokeUntilThrow(cbs, rec) ==
    LET n == IF \E i \in 1..Len(cbs) : cbs[i] \in Throwing
             THEN CHOOSE i \in 1..Len(cbs) :
                      /\ cbs[i] \in Throwing
                      /\ \A j \in 1..(i - 1) : cbs[j] \notin Throwing
             ELSE Len(cbs)
    IN [i \in 1..n |-> [cb |-> cbs[i], msg |-> rec.msg, event_name |-> rec.event_name,
                        threw |-> cbs[i] \in Throwing]]

\* The callbacks of one group invoked for one record: callback(msg, record)
\* in a try/catch of its own, so that the loop goes on after a throw.
Invoke(cbs, rec) ==
    [i \in 1..Len(cbs) |-> [cb |-> cbs[i], msg |-> rec.msg, event_name |-> rec.event_name,
                            threw |-> cbs[i] \in Throwing]]

\* Dispatch that leaves out the '*' group.
DispatchNamedOnly(map, rec) ==
    IF rec.event_name.t = "str" /\ rec.event_name.s \in DOMAIN map
    THEN Invoke(map[rec.event_name.s], rec) ELSE <<>>

\* Dispatch that notifies the '*' group first.
DispatchWildcardFirst(map, rec) ==
    (IF Wildcard \in DOMAIN map THEN Invoke(map[Wildcard], rec) ELSE <<>>)
    \o (IF rec.event_name.t = "str" /\ rec.event_name.s \in DOMAIN map
        THEN Invoke(map[rec.event_name.s], rec) ELSE <<>>)

\* The notification part of handleMessage for one record: the callbacks of
\* the record's event name, then the callbacks of '*'.
Dispatch(map, rec) ==
    (IF rec.event_name.t = "str" /\ rec.event_name.s \in DOMAIN map
     THEN Invoke(map[rec.event_name.s], rec) ELSE <<>>)
    \o (IF Wildcard \in DOMAIN map THEN Invoke(map[Wildcard], rec) ELSE <<>>)

\* The segments of a read with no filter.
LinesUnfiltered(data) == Split(data, "\n")

\* data.split('\n').filter(line => line.trim().length > 0)
Lines(data) == NonBlank(Split(data, "\n"))

RECURSIVE DecodeAll(_)
DecodeAll(lines) ==
    IF lines = <<>> THEN <<>>
    ELSE <<[msg |-> Decode(Head(lines)).msg,
            event_name |-> Decode(Head(lines)).event_name]>> \o DecodeAll(Tail(lines))

RECURSIVE DispatchLastFirst(_, _)
\* Dispatch of the records of a read from the last line to the first.
DispatchLastFirst(map, recs) ==
    IF recs = <<>> THEN <<>>
    ELSE DispatchLastFirst(map, Tail(recs)) \o Dispatch(map, Head(recs))

RECURSIVE DispatchAll(_, _)
DispatchAll(map, recs) ==
    IF recs = <<>> THEN <<>>
    ELSE Dispatch(map, Head(recs)) \o DispatchAll(map, Tail(recs))

\* The reads the model draws from.
Chunks ==
    { <<"a", ":", "x", "\n">>,
      <<"a", ":">>,
      <<"x", "\n">>,
      <<"x", "\n", "a", ":", "x">>,
      <<" ", "\n">> }

\* socket.destroyed
Destroyed(s) == socks[s].st \in {"destroyed", "closed"}

Live(s) == socks[s].st \in {"connecting", "open"}

\* EventListener.isActive()
isActive == isListening /\ socket # 0 /\ ~Destroyed(socket)

\* What a caller can observe of the listener.
Snap ==
    [listeners |-> listeners, socks |-> socks, socket |-> socket,
     isListening |-> isListening, isActive |-> isActive,
     reconnectAttempts |-> reconnectAttempts, timers |-> timers]

\* No call made yet on a new EventListener.
NoCallYet ==
    [op |-> "none", e |-> <<>>, cb |-> "", given |-> FALSE, result |-> "none",
     again |-> FALSE,
     before |-> [listeners |-> EmptyMap, socks |-> <<>>, socket |-> 0,
                 isListening |-> FALSE, isActive |-> FALSE,
                 reconnectAttempts |-> 0, timers |-> <<>>],
     after  |-> [listeners |-> EmptyMap, socks |-> <<>>, socket |-> 0,
                 isListening |-> FALSE, isActive |-> FALSE,
                 reconnectAttempts |-> 0, timers |-> <<>>]]

\* The call history: a run that keeps it (limits.hist) records each caller
\* call with the listener's state before and after it, what it returned,
\* and whether it repeats the previous call with nothing in between.
Record(op, e, cb, given, result) ==
    lastCall' = IF limits.hist
                THEN [op |-> op, e |-> e, cb |-> cb, given |-> given, result |-> result,
                      again |-> (lastCall.op = op /\ lastCall.after = Snap),
                      before |-> Snap, after |-> Snap']
                ELSE lastCall

\* 'data' on socket s: handleMessage(data.toString()).
Data(s, data) ==
    /\ s \in 1..Len(socks)
    /\ socks[s].st = "open"
    /\ Len(received) < limits.reads
    /\ received' = Append(received, [sock |-> s, data |-> data])
    /\ LET recs == DecodeAll(Lines(data))
       IN /\ decoded' = decoded \o [i \in 1..Len(recs) |-> [sock |-> s, rec |-> recs[i]]]
          /\ delivered' = delivered \o DispatchAll(listeners, recs)
    /\ UNCHANGED <<socks, socket, isListening, reconnectAttempts, timers, listeners,
                   stopMark, autoAttempts, callerOps, subOps, limits,
                   lastCall, handles, regVars, codecVars, driverVars>>

\* A caller calls on(eventName, cb).
on(eventName, cb) ==
    /\ subOps < limits.subs
    /\ subOps' = subOps + 1
    /\ listeners' = onListeners(listeners, eventName, cb)
    /\ handles' = IF limits.hist THEN handles \cup {<<eventName, cb>>} ELSE handles
    /\ UNCHANGED <<socks, socket, isListening, reconnectAttempts, timers,
                   received, decoded, delivered, stopMark, autoAttempts, callerOps, limits, regVars, codecVars, driverVars>>
    /\ Record("on", eventName, cb, TRUE, "unsubscribe")

\* A caller calls off(eventName, cb).
off(eventName, cb) ==
    /\ subOps < limits.subs
    /\ subOps' = subOps + 1
    /\ listeners' = offListeners(listeners, eventName, cb)
    /\ UNCHANGED <<socks, socket, isListening, reconnectAttempts, timers, handles,
                   received, decoded, delivered, stopMark, autoAttempts, callerOps, limits, regVars, codecVars, driverVars>>
    /\ Record("off", eventName, cb, TRUE, "returned")

\* A caller calls the function an earlier on(eventName, cb) returned:
\* () => this.off(eventName, callback).
unsubscribe(eventName, cb) ==
    /\ <<eventName, cb>> \in handles
    /\ subOps < limits.subs
    /\ subOps' = subOps + 1
    /\ listeners' = offListeners(listeners, eventName, cb)
    /\ UNCHANGED <<socks, socket, isListening, reconnectAttempts, timers, handles,
                   received, decoded, delivered, stopMark, autoAttempts, callerOps, limits, regVars, codecVars, driverVars>>
    /\ Record("unsubscribe", eventName, cb, TRUE, "returned")

\* A caller calls removeAllListeners(eventName), or removeAllListeners()
\* when given is FALSE.
removeAllListeners(given, eventName) ==
    /\ subOps < limits.subs
    /\ subOps' = subOps + 1
    /\ listeners' = removeAllListenersOf(listeners, given, eventName)
    /\ UNCHANGED <<socks, socket, isListening, reconnectAttempts, timers, handles,
                   received, decoded, delivered, stopMark, autoAttempts, callerOps, limits, regVars, codecVars, driverVars>>
    /\ Record("removeAllListeners", eventName, "", given, "returned")

----------------------------------------------------------------------------
(* EventListener: connection life cycle *)

\* A socket created by start(), with the closure state of that start() call.
\*   st       "connecting" | "open" | "destroyed" (destroy() called, 'close'
\*            not yet emitted) | "closed" ('close' emitted)
\*   resolved the closure variable `resolved` of that start() call
\*   promise  the promise start() returned: "pending" | "resolved" | "rejected"
\*   origin   history: who called start(): "caller", or the mark of the timer
\*   ever     history: the socket was once connected
\*   err      history: the socket emitted 'error'
\*   sched    history: number of retries its handlers scheduled
NewSocket(origin) ==
    [st |-> "connecting", resolved |-> FALSE, promise |-> "pending",
     origin |-> origin, ever |-> FALSE, err |-> FALSE, sched |-> 0]

\* The fields handleReconnect reads and writes, as a record:
\*   ra  reconnectAttempts,  tm  timers,  n  retries scheduled (history)
\* handleReconnect(): give up at the cap, else count the attempt and set a
\* timer of reconnectDelay * reconnectAttempts ms that calls start().
handleReconnect(r) ==
    IF r.ra >= maxReconnectAttempts
    THEN r
    ELSE [ra |-> r.ra + 1,
          tm |-> Append(r.tm, [delay |-> reconnectDelay * (r.ra + 1),
                               mark  |-> IF stopMark = "active" THEN "postStop" ELSE "fresh"]),
          n  |-> r.n + 1]

\* The body of start() once the isListening guard has passed: a new socket
\* that becomes this.socket.
OpenSocket(origin) ==
    /\ socks' = Append(socks, NewSocket(origin))
    /\ socket' = Len(socks) + 1

\* start() without the isListening guard.
CallerStartUnguarded ==
    /\ callerOps < limits.ops
    /\ callerOps' = callerOps + 1
    /\ stopMark' = "none"
    /\ Len(socks) < limits.socks
    /\ OpenSocket("caller")
    /\ autoAttempts' = 0
    /\ UNCHANGED <<isListening, reconnectAttempts, timers, listeners, received, decoded, delivered, subOps, limits,
                   handles, regVars, codecVars, driverVars>>
    /\ Record("start", <<>>, "", FALSE, "pending")

\* start() on a listener that forgets its registrations.
CallerStartFresh ==
    /\ callerOps < limits.ops
    /\ callerOps' = callerOps + 1
    /\ stopMark' = "none"
    /\ IF isListening
       THEN UNCHANGED <<socks, socket, autoAttempts>>
       ELSE /\ Len(socks) < limits.socks
            /\ OpenSocket("caller")
            /\ autoAttempts' = 0
    /\ listeners' = EmptyMap
    /\ UNCHANGED <<isListening, reconnectAttempts, timers, received, decoded, delivered, subOps, limits,
                   handles, regVars, codecVars, driverVars>>
    /\ Record("start", <<>>, "", FALSE, IF isListening THEN "resolved" ELSE "pending")

\* A caller calls start().
CallerStart ==
    /\ callerOps < limits.ops
    /\ callerOps' = callerOps + 1
    /\ stopMark' = "none"
    /\ IF isListening
       THEN UNCHANGED <<socks, socket, autoAttempts>>
       ELSE /\ Len(socks) < limits.socks
            /\ OpenSocket("caller")
            /\ autoAttempts' = 0
    /\ UNCHANGED <<isListening, reconnectAttempts, timers, listeners, received, decoded, delivered, subOps, limits,
                   handles, regVars, codecVars, driverVars>>
    /\ Record("start", <<>>, "", FALSE, IF isListening THEN "resolved" ELSE "pending")

\* A caller calls start() after the promises of its earlier start() calls
\* have settled.
AwaitedStart ==
    /\ \A s \in 1..Len(socks) :
           socks[s].origin = "caller" => socks[s].promise # "pending"
    /\ CallerStart

\* Timers set at the same or an earlier time with a delay that is not longer
\* fire first.
CanFire(i) == \A j \in 1..(i - 1) : timers[j].delay > timers[i].delay

RemoveAt(seq, i) == SubSeq(seq, 1, i - 1) \o SubSeq(seq, i + 1, Len(seq))

\* The setTimeout callback of handleReconnect runs: await this.start().
TimerFire(i) ==
    /\ i \in 1..Len(timers)
    /\ CanFire(i)
    /\ timers' = RemoveAt(timers, i)
    /\ IF isListening
       THEN UNCHANGED <<socks, socket, autoAttempts>>
       ELSE /\ Len(socks) < limits.socks
            /\ OpenSocket(timers[i].mark)
            /\ autoAttempts' = autoAttempts + 1
    /\ UNCHANGED <<isListening, reconnectAttempts, listeners, received, decoded, delivered,
                   stopMark, callerOps, subOps, limits,
                   lastCall, handles, regVars, codecVars, driverVars>>

\* 'connect' on socket s: the callback given to socket.connect().
ConnectOK(s) ==
    /\ s \in 1..Len(socks)
    /\ socks[s].st = "connecting"
    /\ IF ~socks[s].resolved
       THEN /\ socks' = [socks EXCEPT ![s].st = "open", ![s].ever = TRUE,
                                      ![s].resolved = TRUE,
                                      ![s].promise = "resolved"]
            /\ isListening' = TRUE
            /\ reconnectAttempts' = 0
            /\ autoAttempts' = 0
       ELSE /\ socks' = [socks EXCEPT ![s].st = "open", ![s].ever = TRUE]
            /\ UNCHANGED <<isListening, reconnectAttempts, autoAttempts>>
    /\ UNCHANGED <<socket, timers, listeners, received, decoded, delivered, stopMark, callerOps, subOps, limits,
                   lastCall, handles, regVars, codecVars, driverVars>>

\* 'error' on socket s (a failed connect, or a failure of the established
\* connection), directly followed by its 'close'.
\* error handler: reject the pending start(), or else handleReconnect().
\* close handler: isListening = false; handleReconnect().
SocketError(s) ==
    /\ s \in 1..Len(socks)
    /\ Live(s)
    /\ LET r0 == [ra |-> reconnectAttempts, tm |-> timers, n |-> 0]
           r1 == IF ~socks[s].resolved THEN r0 ELSE handleReconnect(r0)
           r2 == handleReconnect(r1)
       IN /\ socks' = [socks EXCEPT
                ![s].st = "closed", ![s].err = TRUE, ![s].resolved = TRUE,
                ![s].promise = IF socks[s].resolved THEN @ ELSE "rejected",
                ![s].sched = r2.n]
          /\ reconnectAttempts' = r2.ra
          /\ timers' = r2.tm
    /\ isListening' = FALSE
    /\ UNCHANGED <<socket, listeners, received, decoded, delivered, stopMark, autoAttempts, callerOps, subOps, limits,
                   lastCall, handles, regVars, codecVars, driverVars>>

\* The connection attempt of socket s fails: 'error', then 'close'.
ConnectFail(s) ==
    /\ s \in 1..Len(socks)
    /\ socks[s].st = "connecting"
    /\ SocketError(s)

\* A close handler that drops the subscriptions.
CloseHandlerClears(s) ==
    LET r == handleReconnect([ra |-> reconnectAttempts, tm |-> timers, n |-> 0])
    IN /\ socks' = [socks EXCEPT ![s].st = "closed", ![s].sched = r.n]
       /\ isListening' = FALSE
       /\ reconnectAttempts' = r.ra
       /\ timers' = r.tm
       /\ listeners' = EmptyMap
       /\ UNCHANGED <<socket, received, decoded, delivered, stopMark, autoAttempts, callerOps, subOps, limits,
                      lastCall, handles, regVars, codecVars, driverVars>>

\* The close handler alone, for socket s.
CloseHandler(s) ==
    LET r == handleReconnect([ra |-> reconnectAttempts, tm |-> timers, n |-> 0])
    IN /\ socks' = [socks EXCEPT ![s].st = "closed", ![s].sched = r.n]
       /\ isListening' = FALSE
       /\ reconnectAttempts' = r.ra
       /\ timers' = r.tm
       /\ UNCHANGED <<socket, listeners, received, decoded, delivered, stopMark, autoAttempts, callerOps, subOps, limits,
                      lastCall, handles, regVars, codecVars, driverVars>>

\* The peer closes the established connection of socket s: 'close'.
RemoteClose(s) ==
    /\ s \in 1..Len(socks)
    /\ socks[s].st = "open"
    /\ CloseHandler(s)

\* 'close' of a socket that stop() destroyed.
CloseEvent(s) ==
    /\ s \in 1..Len(socks)
    /\ socks[s].st = "destroyed"
    /\ CloseHandler(s)

\* stop() without listeners.clear().
stopKeepsListeners ==
    /\ callerOps < limits.ops
    /\ callerOps' = callerOps + 1
    /\ stopMark' = IF isActive THEN "active" ELSE "idle"
    /\ IF socket # 0
       THEN /\ socks' = [socks EXCEPT ![socket].st =
                            IF Destroyed(socket) THEN @ ELSE "destroyed"]
            /\ socket' = 0
       ELSE UNCHANGED <<socks, socket>>
    /\ isListening' = FALSE
    /\ timers' = [i \in 1..Len(timers) |->
                     [timers[i] EXCEPT !.mark = IF @ = "fresh" THEN "preStop" ELSE @]]
    /\ UNCHANGED <<reconnectAttempts, received, decoded, delivered, autoAttempts, subOps, limits,
                   listeners, handles, regVars, codecVars, driverVars>>
    /\ Record("stop", <<>>, "", FALSE, "returned")

\* A caller calls stop().
stop ==
    /\ callerOps < limits.ops
    /\ callerOps' = callerOps + 1
    /\ stopMark' = IF isActive THEN "active" ELSE "idle"
    /\ IF socket # 0
       THEN /\ socks' = [socks EXCEPT ![socket].st =
                            IF Destroyed(socket) THEN @ ELSE "destroyed"]
            /\ socket' = 0
       ELSE UNCHANGED <<socks, socket>>
    /\ isListening' = FALSE
    /\ listeners' = EmptyMap
    /\ timers' = [i \in 1..Len(timers) |->
                     [timers[i] EXCEPT !.mark = IF @ = "fresh" THEN "preStop" ELSE @]]
    /\ UNCHANGED <<reconnectAttempts, received, decoded, delivered, autoAttempts, subOps, limits,
                   handles, regVars, codecVars, driverVars>>
    /\ Record("stop", <<>>, "", FALSE, "returned")

----------------------------------------------------------------------------
(* RegistrationClient *)

Marker ==
    <<"R", "E", "G", "I", "S", "T", "R", "A", "T", "I", "O", "N", "_", "S",
      "E", "R", "V", "E", "R">>
OkPrefix ==
    <<"O", "K", ":">>
ErrorPrefix ==
    <<"E", "R", "R", "O", "R", ":">>

\* parseInt(text): the value of the leading decimal digits; -1 stands for NaN.
RECURSIVE DigitsValue(_, _)
DigitsValue(s, acc) ==
    IF s = <<>> \/ Head(s) \notin Digits THEN acc
    ELSE DigitsValue(Tail(s),
             10 * acc + (CHOOSE d \in 0..9 :
                            <<"0", "1", "2", "3", "4", "5", "6", "7", "8", "9">>[d + 1] = Head(s)))

ParseInt(text) ==
    LET s == TrimStart(text)
    IN IF s = <<>> \/ Head(s) \notin Digits THEN -1 ELSE DigitsValue(s, 0)

\* String(n) for an integer n >= 0, and "NaN" for -1
RECURSIVE NatToString(_)
NatToString(n) ==
    IF n < 10 THEN <<<<"0", "1", "2", "3", "4", "5", "6", "7", "8", "9">>[n + 1]>>
    ELSE NatToString(n \div 10) \o NatToString(n % 10)

NumberToString(n) == IF n < 0 THEN <<"N", "a", "N">> ELSE NatToString(n)

\* constructor(registrationAddress, consumerAddress): the consumer part.
\* const [consumerHost, consumerPort] = consumerAddress.split(':')
Consumer(consumerAddress) ==
    LET parts == Split(consumerAddress, ":")
    IN [host |-> parts[1],
        port |-> IF Len(parts) >= 2 THEN ParseInt(parts[2]) ELSE -1]

\* `${this.consumerHost}:${this.consumerPort}`
ConsumerString(c) == c.host \o <<":">> \o NumberToString(c.port)

\* The command line register() writes.
RegisterCommand(c, consumerId, events) ==
    LET eventsStr == IF Len(events) > 0 THEN <<" ">> \o Join(events, " ") ELSE <<>>
    IN <<"R", "E", "G", "I", "S", "T", "E", "R", " ">> \o consumerId
         \o <<" ", "t", "c", "p", ":", "/", "/">> \o ConsumerString(c) \o eventsStr \o <<"\n">>

\* The command line subscribe() and unsubscribe() write through sendCommand().
SubscribeCommand(consumerId, eventName) ==
    <<"S", "U", "B", "S", "C", "R", "I", "B", "E", " ">> \o consumerId \o <<" ">> \o eventName \o <<"\n">>

UnsubscribeCommand(consumerId, eventName) ==
    <<"U", "N", "S", "U", "B", "S", "C", "R", "I", "B", "E", " ">> \o consumerId \o <<" ">> \o eventName \o <<"\n">>

\* The arguments the model draws from.
ConsumerAddresses == {<<"h", ":", "9", "0">>, <<"h", ":", "0", "7">>}
ConsumerIds == {<<"c">>}
EventLists == {<<>>, <<<<"a">>, <<"b">>>>}

NoCall == [kind |-> "none", command |-> <<>>, consumer |-> [host |-> <<>>, port |-> -1]]
Pending == [state |-> "pending", kind |-> "none", value |-> <<>>]

\* The first line that starts with OK: or ERROR:, as the for loop finds it.
RECURSIVE FirstVerdict(_)
FirstVerdict(lines) ==
    IF lines = <<>> THEN [kind |-> "none", line |-> <<>>]
    ELSE IF StartsWith(Head(lines), OkPrefix) THEN [kind |-> "ok", line |-> Head(lines)]
    ELSE IF StartsWith(Head(lines), ErrorPrefix) THEN [kind |-> "error", line |-> Head(lines)]
    ELSE FirstVerdict(Tail(lines))

\* What resolve() is called with: the consumer address for register(),
\* nothing for sendCommand().
ResolveValue(call) ==
    IF call.kind = "register" THEN ConsumerString(call.consumer) ELSE <<>>

\* startEventListener goes on although register() has failed.
AfterRegisterIgnoresFailure(state) ==
    /\ driver' = [driver EXCEPT !.call = "starting", !.eventListener = TRUE]
    /\ Len(socks) < limits.socks
    /\ OpenSocket("caller")
    /\ autoAttempts' = 0
    /\ stopMark' = "none"
    /\ UNCHANGED <<isListening, reconnectAttempts, timers, listeners, received, decoded,
                   delivered, callerOps, subOps, lastCall, handles>>

\* startEventListener after `await regClient.register(...)`: a rejection
\* rejects the call; a success creates the EventListener, stores it in
\* this.eventListener and awaits its start().
AfterRegister(state) ==
    IF state = "resolved"
    THEN /\ driver' = [driver EXCEPT !.call = "starting", !.eventListener = TRUE]
         /\ Len(socks) < limits.socks
         /\ OpenSocket("caller")
         /\ autoAttempts' = 0
         /\ stopMark' = "none"
         /\ UNCHANGED <<isListening, reconnectAttempts, timers, listeners, received, decoded,
                        delivered, callerOps, subOps, lastCall, handles>>
    ELSE /\ driver' = [driver EXCEPT !.call = "rejected"]
         /\ UNCHANGED listenerVars

\* What a step of the registration socket leaves alone: everything, unless
\* it settles the register() promise a startEventListener call awaits.
RegFrame ==
    /\ UNCHANGED <<limits, codecVars, sendCall>>
    /\ IF driver.call = "registering" /\ regPromise'.state # "pending"
       THEN AfterRegister(regPromise'.state)
       ELSE UNCHANGED <<listenerVars, driver>>

\* A caller calls driver.startEventListener(listenerConfig, registrationConfig):
\* with a registration config register() is called and awaited, without one
\* the EventListener is created and started at once.
startEventListener(registration, address, consumerId, events) ==
    /\ driver.call = "none"
    /\ regCall.kind = "none"
    /\ IF registration
       THEN /\ driver' = [driver EXCEPT !.call = "registering", !.registration = TRUE]
            /\ regCall' = [kind |-> "register",
                           command |-> RegisterCommand(Consumer(address), consumerId, events),
                           consumer |-> Consumer(address)]
            /\ regSock' = "connecting"
            /\ UNCHANGED <<responseData, regResolved, regWritten, regPromise, regReads>>
            /\ UNCHANGED listenerVars
       ELSE /\ driver' = [driver EXCEPT !.call = "starting", !.eventListener = TRUE]
            /\ Len(socks) < limits.socks
            /\ OpenSocket("caller")
            /\ autoAttempts' = 0
            /\ stopMark' = "none"
            /\ UNCHANGED <<isListening, reconnectAttempts, timers, listeners, received, decoded,
                           delivered, callerOps, subOps, lastCall, handles>>
            /\ UNCHANGED regVars
    /\ UNCHANGED <<limits, codecVars, sendCall>>

\* A caller calls register(consumerId, events), subscribe(consumerId, e) or
\* unsubscribe(consumerId, e): a socket is created and connect() is called.
RegStart(kind, address, consumerId, events) ==
    /\ regCall.kind = "none"
    /\ regCall' = [kind |-> kind,
                   command |-> CASE kind = "register" ->
                                      RegisterCommand(Consumer(address), consumerId, events)
                                 [] kind = "subscribe" ->
                                      SubscribeCommand(consumerId, <<"a">>)
                                 [] OTHER ->
                                      UnsubscribeCommand(consumerId, <<"a">>),
                   consumer |-> Consumer(address)]
    /\ regSock' = "connecting"
    /\ UNCHANGED <<responseData, regResolved, regWritten, regPromise, regReads>>
    /\ UNCHANGED <<listenerVars, limits, codecVars, driverVars>>

\* A connect callback that writes the command without waiting for the banner.
RegConnectWrites ==
    /\ regSock = "connecting"
    /\ regSock' = "open"
    /\ regWritten' = Append(regWritten, regCall.command)
    /\ UNCHANGED <<regCall, responseData, regResolved, regPromise, regReads>>
    /\ RegFrame

\* 'connect' of the call's socket: the data handler is attached.
RegConnect ==
    /\ regSock = "connecting"
    /\ regSock' = "open"
    /\ UNCHANGED <<regCall, responseData, regResolved, regWritten, regPromise, regReads>>
    /\ RegFrame

\* 'data' of the call's socket: the handler of register() / sendCommand().
RegData(data) ==
    /\ regSock = "open"
    /\ Len(regReads) < limits.regReads
    /\ regReads' = Append(regReads, [data |-> data, afterCmd |-> regWritten # <<>>])
    /\ responseData' = responseData \o data
    /\ IF Includes(responseData', Marker)
       THEN /\ regWritten' = Append(regWritten, regCall.command)
            /\ UNCHANGED <<regResolved, regSock, regPromise>>
       ELSE IF Includes(responseData', OkPrefix) \/ Includes(responseData', ErrorPrefix)
       THEN LET v == FirstVerdict(Split(responseData', "\n"))
            IN /\ regResolved' = (regResolved \/ v.kind # "none")
               /\ regSock' = IF v.kind # "none" THEN "destroyed" ELSE regSock
               /\ regPromise' =
                      IF v.kind = "ok"
                      THEN [state |-> "resolved", kind |-> "ok",
                            value |-> ResolveValue(regCall)]
                      ELSE IF v.kind = "error"
                      THEN [state |-> "rejected", kind |-> "protocol",
                            value |-> Substring(v.line, 6)]
                      ELSE regPromise
               /\ UNCHANGED regWritten
       ELSE UNCHANGED <<regWritten, regResolved, regSock, regPromise>>
    /\ UNCHANGED regCall
    /\ RegFrame

\* 'error' of the call's socket, followed by its close.
RegError ==
    /\ regSock \in {"connecting", "open"}
    /\ regSock' = "closed"
    /\ IF ~regResolved
       THEN /\ regResolved' = TRUE
            /\ regPromise' = [state |-> "rejected", kind |-> "error", value |-> <<>>]
       ELSE UNCHANGED <<regResolved, regPromise>>
    /\ UNCHANGED <<regCall, responseData, regWritten, regReads>>
    /\ RegFrame

\* A timeout handler that rejects and leaves the socket open.
RegTimeoutLeavesOpen ==
    /\ regSock \in {"connecting", "open"}
    /\ IF ~regResolved
       THEN /\ regResolved' = TRUE
            /\ regPromise' = [state |-> "rejected", kind |-> "timeout", value |-> <<>>]
       ELSE UNCHANGED <<regResolved, regPromise>>
    /\ UNCHANGED <<regCall, regSock, responseData, regWritten, regReads>>
    /\ RegFrame

\* 'timeout' of the call's socket: 5000 ms without activity.
RegTimeout ==
    /\ regSock \in {"connecting", "open"}
    /\ IF ~regResolved
       THEN /\ regResolved' = TRUE
            /\ regSock' = "destroyed"
            /\ regPromise' = [state |-> "rejected", kind |-> "timeout", value |-> <<>>]
       ELSE UNCHANGED <<regResolved, regSock, regPromise>>
    /\ UNCHANGED <<regCall, responseData, regWritten, regReads>>
    /\ RegFrame

\* The server closes the connection: 'end' and 'close', which have no handler.
RegPeerClose ==
    /\ regSock = "open"
    /\ regSock' = "closed"
    /\ UNCHANGED <<regCall, responseData, regResolved, regWritten, regPromise, regReads>>
    /\ RegFrame

\* What the server sends in one read.
RegChunks ==
    { Marker \o <<"\n">>,
      <<"R", "E", "G", "I", "S", "T", "R", "A", "T", "I", "O", "N", "_">>,
      <<"S", "E", "R", "V", "E", "R", "\n">>,
      <<"O", "K", ":", "d", "o", "n", "e", "\n">>,
      <<"E", "R", "R", "O", "R", ":", "u", "n", "k", "n", "o", "w", "n", " ", "c", "o", "n", "s", "u", "m", "e", "r", "\n">> }

----------------------------------------------------------------------------
(* TcpProtocol.send and Driver.send / sendBatch *)

\* A sender that always appends a newline.
WithNewlineAlways(message) == message \o <<"\n">>

\* message.endsWith('\n') ? message : message + '\n'
WithNewline(message) ==
    IF EndsWith(message, <<"\n">>) THEN message ELSE message \o <<"\n">>

\* No send() call made.
NoSend ==
    [message |-> <<>>, st |-> "none", resolved |-> FALSE, promise |-> "none",
     kind |-> "none", written |-> <<>>, write |-> "none", linger |-> FALSE,
     outcomes |-> <<>>]

\* TcpProtocol.send(message): a new socket with a 5000 ms timeout, connect().
\*   st        the socket `client`: "connecting" | "open" | "destroyed" | "closed"
\*   resolved  the closure variable `resolved`
\*   promise   the promise send() returned, kind the Error it rejected with
\*   written   what client.write() was given
\*   write     the callback of client.write(): "none" | "pending" | "ok" | "failed"
\*   linger    the 100 ms timer set after the write
\*   outcomes  history: the resolve() and reject() calls made, in order
NewSend(message) ==
    [message |-> message, st |-> "connecting", resolved |-> FALSE, promise |-> "pending",
     kind |-> "none", written |-> <<>>, write |-> "none", linger |-> FALSE,
     outcomes |-> <<>>]

\* A promise that takes the outcome of every resolve() or reject() call.
SettleLast(c, state, kind) ==
    [c EXCEPT !.promise = state, !.kind = kind,
              !.outcomes = Append(@, [state |-> state, kind |-> kind])]

\* resolve() or reject() on the promise of call c: the first call settles
\* it, later calls do nothing.
Settle(c, state, kind) ==
    [c EXCEPT !.promise = IF @ = "pending" THEN state ELSE @,
              !.kind = IF c.promise = "pending" THEN kind ELSE @,
              !.outcomes = Append(@, [state |-> state, kind |-> kind])]

\* client.destroy()
DestroyClient(c) ==
    [c EXCEPT !.st = IF @ \in {"connecting", "open"} THEN "destroyed" ELSE @]

\* Driver.send(message) for the driver record d: a message that is empty
\* is refused with an Error, otherwise protocol.send(message) is awaited.
\* The sends of the driver are kept in d.sent: [message, outcome].
DriverSend(d, message) ==
    IF message = <<>>
    THEN [d |-> [d EXCEPT !.sent = Append(@, [message |-> message, outcome |-> "rejected"])],
          c |-> sendCall]
    ELSE [d |-> [d EXCEPT !.sent = Append(@, [message |-> message, outcome |-> "pending"])],
          c |-> NewSend(message)]

\* A sendBatch whose loop goes on to the next message after a failed send.
AfterSendContinues(d) ==
    IF d.sent = <<>> \/ d.call = "none" THEN d
    ELSE LET outcome == d.sent[Len(d.sent)].outcome
         IN IF outcome \in {"rejected", "resolved"}
            THEN IF d.call = "send"
                 THEN [d EXCEPT !.call = outcome]
                 ELSE [d EXCEPT !.pause = TRUE]
            ELSE d

\* sendBatch after `await this.send(message)` has settled for the last
\* message sent: a rejection ends the batch, a success starts the 50 ms pause.
AfterSend(d) ==
    IF d.sent = <<>> \/ d.call = "none" THEN d
    ELSE LET outcome == d.sent[Len(d.sent)].outcome
         IN IF outcome = "rejected" THEN [d EXCEPT !.call = "rejected"]
            ELSE IF outcome = "resolved"
                 THEN IF d.call = "send" THEN [d EXCEPT !.call = "resolved"]
                      ELSE [d EXCEPT !.pause = TRUE]
            ELSE d

\* The promise of protocol.send settles: Driver.send settles with it.
Settled(d, c) ==
    IF d.sent # <<>> /\ d.sent[Len(d.sent)].outcome = "pending" /\ c.promise # "pending"
    THEN AfterSend([d EXCEPT !.sent[Len(d.sent)].outcome = c.promise])
    ELSE d

\* A step of the send call: the call becomes c.
SendStep(c) ==
    /\ sendCall' = c
    /\ driver' = Settled(driver, c)
    /\ UNCHANGED <<listenerVars, limits, regVars, codecVars>>

\* A caller calls driver.send(message).
send(message) ==
    /\ driver.call = "none"
    /\ LET r == DriverSend([driver EXCEPT !.call = "send"], message)
       IN /\ sendCall' = r.c
          /\ driver' = AfterSend(r.d)
    /\ UNCHANGED <<listenerVars, limits, regVars, codecVars>>

\* A caller calls driver.sendBatch(messages) with an array: the loop
\* reaches its first `await this.send(message)`, or ends at once.
sendBatch(messages) ==
    /\ driver.call = "none"
    /\ IF messages = <<>>
       THEN /\ driver' = [driver EXCEPT !.call = "resolved", !.batch = messages]
            /\ UNCHANGED sendCall
       ELSE LET r == DriverSend([driver EXCEPT !.call = "batch", !.batch = messages],
                                messages[1])
            IN /\ sendCall' = r.c
               /\ driver' = AfterSend(r.d)
    /\ UNCHANGED <<listenerVars, limits, regVars, codecVars>>

\* The 50 ms pause of sendBatch ends: the next message, or the end of the loop.
BatchPause ==
    /\ driver.pause
    /\ LET d == [driver EXCEPT !.pause = FALSE]
       IN IF Len(d.sent) >= Len(d.batch)
          THEN /\ driver' = [d EXCEPT !.call = "resolved"]
               /\ UNCHANGED sendCall
          ELSE LET r == DriverSend(d, d.batch[Len(d.sent) + 1])
               IN /\ sendCall' = r.c
                  /\ driver' = AfterSend(r.d)
    /\ UNCHANGED <<listenerVars, limits, regVars, codecVars>>

\* 'connect' of the send socket: the message is written with its newline.
SendConnect ==
    /\ sendCall.st = "connecting"
    /\ SendStep(IF ~sendCall.resolved
                THEN [sendCall EXCEPT !.st = "open",
                                      !.written = Append(@, WithNewline(sendCall.message)),
                                      !.write = "pending"]
                ELSE [sendCall EXCEPT !.st = "open"])

\* The callback of client.write() without an error: the 100 ms timer is set.
SendWriteOK ==
    /\ sendCall.write = "pending"
    /\ sendCall.st = "open"
    /\ SendStep([sendCall EXCEPT !.write = "ok", !.linger = TRUE])

\* The callback of client.write() with an error.
SendWriteFail ==
    /\ sendCall.write = "pending"
    /\ SendStep(Settle(DestroyClient([sendCall EXCEPT !.write = "failed", !.resolved = TRUE]),
                        "rejected", "write"))

\* The 100 ms timer after the write: destroy the socket and resolve.
SendLinger ==
    /\ sendCall.linger
    /\ SendStep(Settle(DestroyClient([sendCall EXCEPT !.linger = FALSE, !.resolved = TRUE]),
                        "resolved", "none"))

\* 'error' of the send socket, followed by its close.
SendError ==
    /\ sendCall.st \in {"connecting", "open"}
    /\ SendStep(IF ~sendCall.resolved
                THEN Settle([sendCall EXCEPT !.st = "closed", !.resolved = TRUE],
                            "rejected", "error")
                ELSE [sendCall EXCEPT !.st = "closed"])

\* 'timeout' of the send socket: 5000 ms without activity, so not while
\* the 100 ms timer is pending.
SendTimeout ==
    /\ sendCall.st \in {"connecting", "open"}
    /\ ~sendCall.linger
    /\ SendStep(IF ~sendCall.resolved
                THEN Settle(DestroyClient([sendCall EXCEPT !.resolved = TRUE]),
                            "rejected", "timeout")
                ELSE sendCall)

----------------------------------------------------------------------------
(* Driver: the listeners it creates *)

\* The listener has a socket that is connecting or connected.
Connected == \E s \in 1..Len(socks) : Live(s)

\* The listener has a retry timer pending.
Reconnecting == timers # <<>>

\* A caller calls driver.startEventListener() again, the start() of the
\* earlier call having settled: a new EventListener is created, stored in
\* this.eventListener and started. The listener that was there is kept in
\* driver.replaced (history) with its connection state at that time.
startEventListenerAgain ==
    /\ driver.call = "starting"
    /\ \A s \in 1..Len(socks) :
           socks[s].origin = "caller" => socks[s].promise # "pending"
    /\ Len(driver.replaced) < MaxReplaced
    /\ driver' = [driver EXCEPT
                     !.eventListener = TRUE,
                     !.replaced = Append(@, [connected |-> Connected,
                                             reconnecting |-> Reconnecting])]
    /\ socks' = <<NewSocket("caller")>>
    /\ socket' = 1
    /\ isListening' = FALSE
    /\ reconnectAttempts' = 0
    /\ timers' = <<>>
    /\ listeners' = EmptyMap
    /\ received' = <<>>
    /\ decoded' = <<>>
    /\ delivered' = <<>>
    /\ stopMark' = "none"
    /\ autoAttempts' = 0
    /\ UNCHANGED <<callerOps, subOps, lastCall, handles>>
    /\ UNCHANGED <<limits, regVars, codecVars, sendCall>>

\* A caller calls driver.stopEventListener(): stop() on the listener in
\* this.eventListener, if any, and the field is cleared.
stopEventListener ==
    /\ driver.call = "starting"
    /\ IF driver.eventListener
       THEN /\ driver' = [driver EXCEPT !.eventListener = FALSE]
            /\ stopMark' = IF isActive THEN "active" ELSE "idle"
            /\ IF socket # 0
               THEN /\ socks' = [socks EXCEPT ![socket].st =
                                    IF Destroyed(socket) THEN @ ELSE "destroyed"]
                    /\ socket' = 0
               ELSE UNCHANGED <<socks, socket>>
            /\ isListening' = FALSE
            /\ listeners' = EmptyMap
            /\ timers' = [i \in 1..Len(timers) |->
                             [timers[i] EXCEPT !.mark = IF @ = "fresh" THEN "preStop" ELSE @]]
       ELSE UNCHANGED <<driver, stopMark, socks, socket, isListening, listeners, timers>>
    /\ UNCHANGED <<reconnectAttempts, received, decoded, delivered, autoAttempts,
                   callerOps, subOps, lastCall, handles>>
    /\ UNCHANGED <<limits, regVars, codecVars, sendCall>>

----------------------------------------------------------------------------
(* Specifications *)

\* new EventListener(config)
ListenerIdle ==
    /\ socks = <<>>
    /\ socket = 0
    /\ isListening = FALSE
    /\ reconnectAttempts = 0
    /\ timers = <<>>
    /\ listeners = EmptyMap
    /\ received = <<>>
    /\ decoded = <<>>
    /\ delivered = <<>>
    /\ stopMark = "none"
    /\ autoAttempts = 0
    /\ callerOps = 0
    /\ subOps = 0
    /\ lastCall = NoCallYet
    /\ handles = {}

\* new RegistrationClient(registrationAddress, consumerAddress), no call yet
RegIdle ==
    /\ regCall = NoCall
    /\ regSock = "none"
    /\ responseData = <<>>
    /\ regResolved = FALSE
    /\ regWritten = <<>>
    /\ regPromise = Pending
    /\ regReads = <<>>

\* No EventMessage call in progress.
CodecIdle ==
    codec = [stage |-> "none", msg |-> <<>>, name |-> <<>>, text |-> <<>>,
             rec |-> [ok |-> FALSE, msg |-> Undefined, event_name |-> Undefined]]

\* new Driver(config), no call made.
NoDriverCall ==
    [call |-> "none", batch |-> <<>>, sent |-> <<>>, pause |-> FALSE,
     registration |-> FALSE, eventListener |-> FALSE, replaced |-> <<>>]

DriverIdle ==
    /\ sendCall = NoSend
    /\ driver = NoDriverCall

\* The connection life cycle of one EventListener: caller start() and
\* stop() calls, retry timers, and the socket events.
Init ==
    /\ ListenerIdle
    /\ RegIdle
    /\ DriverIdle
    /\ CodecIdle
    /\ limits = [socks |-> MaxSockets, ops |-> MaxCallerOps, reads |-> 0, subs |-> 0,
                 regReads |-> 0, hist |-> FALSE]

Next ==
    \/ CallerStart
    \/ stop
    \/ \E i \in 1..Len(timers) : TimerFire(i)
    \/ \E s \in 1..Len(socks) : ConnectOK(s)
    \/ \E s \in 1..Len(socks) : SocketError(s)
    \/ \E s \in 1..Len(socks) : RemoteClose(s)
    \/ \E s \in 1..Len(socks) : CloseEvent(s)

Spec == Init /\ [][Next]_vars

\* The retry chain alone: the caller only calls start() and awaits each
\* call, connections fail to open or are closed by the peer.
InitRetry ==
    /\ ListenerIdle
    /\ RegIdle
    /\ DriverIdle
    /\ CodecIdle
    /\ limits = [socks |-> MaxRetrySockets, ops |-> MaxRetryStarts, reads |-> 0,
                 subs |-> 0, regReads |-> 0, hist |-> FALSE]

NextRetry ==
    \/ AwaitedStart
    \/ \E i \in 1..Len(timers) : TimerFire(i)
    \/ \E s \in 1..Len(socks) : ConnectOK(s)
    \/ \E s \in 1..Len(socks) : ConnectFail(s)
    \/ \E s \in 1..Len(socks) : RemoteClose(s)

SpecRetry == InitRetry /\ [][NextRetry]_vars

\* The data path: subscriptions, one connection and its reconnection, reads.
InitData ==
    /\ ListenerIdle
    /\ RegIdle
    /\ DriverIdle
    /\ CodecIdle
    /\ limits = [socks |-> MaxDataSockets, ops |-> 1, reads |-> MaxReads,
                 subs |-> MaxSubOps, regReads |-> 0, hist |-> FALSE]

NextData ==
    \/ CallerStart
    \/ \E i \in 1..Len(timers) : TimerFire(i)
    \/ \E s \in 1..Len(socks) : ConnectOK(s)
    \/ \E s \in 1..Len(socks) : RemoteClose(s)
    \/ \E s \in 1..Len(socks), data \in Chunks : Data(s, data)
    \/ \E e \in EventNames, cb \in Callbacks : on(e, cb)
    \/ \E e \in EventNames, cb \in Callbacks : off(e, cb)

SpecData == InitData /\ [][NextData]_vars

\* Dispatch on one established connection: the caller subscribes and
\* unsubscribes, the server sends whole lines.
DispatchNames == {<<"a">>, <<"b">>, Wildcard}

DispatchChunks ==
    { <<"a", ":", "x", "\n", "b", ":", "y", "\n">>,
      <<"{", "\"", "e", "v", "e", "n", "t", "_", "n", "a", "m", "e", "\"", ":", "\"", "a", "\"", ",",
        "\"", "m", "s", "g", "\"", ":", "\"", "z", "\"", "}", "\n">>,
      <<"*", ":", "w", "\n">> }

InitDispatch ==
    /\ ListenerIdle
    /\ RegIdle
    /\ DriverIdle
    /\ CodecIdle
    /\ limits = [socks |-> 1, ops |-> 1, reads |-> MaxDispatchReads,
                 subs |-> MaxDispatchSubs, regReads |-> 0, hist |-> FALSE]

NextDispatch ==
    \/ CallerStart
    \/ \E s \in 1..Len(socks) : ConnectOK(s)
    \/ \E s \in 1..Len(socks), data \in DispatchChunks : Data(s, data)
    \/ \E e \in DispatchNames, cb \in Callbacks : on(e, cb)
    \/ \E e \in DispatchNames, cb \in Callbacks : off(e, cb)

SpecDispatch == InitDispatch /\ [][NextDispatch]_vars

\* A caller that registers its callbacks before it calls start().
onBeforeStart(eventName, cb) ==
    /\ callerOps = 0
    /\ on(eventName, cb)

InitEarly ==
    /\ ListenerIdle
    /\ RegIdle
    /\ DriverIdle
    /\ CodecIdle
    /\ limits = [socks |-> 1, ops |-> 1, reads |-> MaxDispatchReads,
                 subs |-> MaxDispatchSubs, regReads |-> 0, hist |-> FALSE]

NextEarly ==
    \/ \E e \in DispatchNames, cb \in Callbacks : onBeforeStart(e, cb)
    \/ CallerStart
    \/ \E s \in 1..Len(socks) : ConnectOK(s)
    \/ \E s \in 1..Len(socks) : SocketError(s)
    \/ \E s \in 1..Len(socks) : RemoteClose(s)
    \/ \E s \in 1..Len(socks), data \in DispatchChunks : Data(s, data)

SpecEarly == InitEarly /\ [][NextEarly]_vars

\* Reads with blank segments on one connection with one subscription call.
InitBlank ==
    /\ ListenerIdle
    /\ RegIdle
    /\ DriverIdle
    /\ CodecIdle
    /\ limits = [socks |-> 1, ops |-> 1, reads |-> MaxBlankReads,
                 subs |-> 1, regReads |-> 0, hist |-> FALSE]

NextBlank ==
    \/ CallerStart
    \/ \E s \in 1..Len(socks) : ConnectOK(s)
    \/ \E s \in 1..Len(socks), data \in Chunks : Data(s, data)
    \/ \E e \in EventNames, cb \in Callbacks : on(e, cb)

SpecBlank == InitBlank /\ [][NextBlank]_vars

\* A listener with subscriptions whose connection drops and is retried,
\* with the calls that remove subscriptions.
SurviveChunks == { <<"a", ":", "x", "\n">> }

InitSurvive ==
    /\ ListenerIdle
    /\ RegIdle
    /\ DriverIdle
    /\ CodecIdle
    /\ limits = [socks |-> 2, ops |-> 2, reads |-> MaxSurviveReads,
                 subs |-> MaxSurviveSubs, regReads |-> 0, hist |-> FALSE]

NextSurvive ==
    \/ \E e \in EventNames, cb \in Callbacks : on(e, cb)
    \/ \E e \in EventNames, cb \in Callbacks : off(e, cb)
    \/ \E e \in EventNames : removeAllListeners(TRUE, e)
    \/ removeAllListeners(FALSE, <<>>)
    \/ CallerStart
    \/ stop
    \/ \E i \in 1..Len(timers) : TimerFire(i)
    \/ \E s \in 1..Len(socks) : ConnectOK(s)
    \/ \E s \in 1..Len(socks) : RemoteClose(s)
    \/ \E s \in 1..Len(socks) : CloseEvent(s)
    \/ \E s \in 1..Len(socks), data \in SurviveChunks : Data(s, data)

SpecSurvive == InitSurvive /\ [][NextSurvive]_vars

\* The subscription calls on a listener that is not started; the caller
\* keeps the unsubscribe functions on() returns.
SubNames == {<<"a">>, <<>>, Wildcard}

InitSubs ==
    /\ ListenerIdle
    /\ RegIdle
    /\ DriverIdle
    /\ CodecIdle
    /\ limits = [socks |-> 0, ops |-> 1, reads |-> 0, subs |-> MaxSubCalls,
                 regReads |-> 0, hist |-> TRUE]

NextSubs ==
    \/ \E e \in SubNames, cb \in Callbacks : on(e, cb)
    \/ \E e \in SubNames, cb \in Callbacks : off(e, cb)
    \/ \E e \in SubNames, cb \in Callbacks : unsubscribe(e, cb)
    \/ \E e \in SubNames : removeAllListeners(TRUE, e)
    \/ removeAllListeners(FALSE, <<>>)
    \/ stop

SpecSubs == InitSubs /\ [][NextSubs]_vars

\* The caller's start() and stop() calls on a listener with one
\* subscription, with the socket events and retry timers of the life cycle.
InitCalls ==
    /\ ListenerIdle
    /\ RegIdle
    /\ DriverIdle
    /\ CodecIdle
    /\ limits = [socks |-> MaxCallSockets, ops |-> MaxCalls, reads |-> 0,
                 subs |-> 1, regReads |-> 0, hist |-> TRUE]

NextCalls ==
    \/ Next
    \/ \E e \in EventNames, cb \in Callbacks : on(e, cb)

SpecCalls == InitCalls /\ [][NextCalls]_vars

\* One call of the registration client against any server.
InitReg ==
    /\ ListenerIdle
    /\ RegIdle
    /\ DriverIdle
    /\ CodecIdle
    /\ limits = [socks |-> 0, ops |-> 0, reads |-> 0, subs |-> 0,
                 regReads |-> MaxRegReads, hist |-> FALSE]

NextReg ==
    \/ \E a \in ConsumerAddresses, c \in ConsumerIds, ev \in EventLists :
           RegStart("register", a, c, ev)
    \/ \E a \in ConsumerAddresses, c \in ConsumerIds : RegStart("subscribe", a, c, <<>>)
    \/ \E a \in ConsumerAddresses, c \in ConsumerIds : RegStart("unsubscribe", a, c, <<>>)
    \/ RegConnect
    \/ \E data \in RegChunks : RegData(data)
    \/ RegError
    \/ RegTimeout
    \/ RegPeerClose

SpecReg == InitReg /\ [][NextReg]_vars

\* The registration sessions with the idle timer of the socket: while the
\* socket is connecting or open and nothing else happens, its 5000 ms
\* timeout fires.
SpecRegLive == InitReg /\ [][NextReg]_vars /\ WF_vars(RegTimeout)

\* EventMessage.create followed by EventMessage.fromJSON, for every msg and
\* event name over an alphabet with the characters JSON escapes.
Alphabet == {"a", ":", "\"", "\\", "\n"}

Texts(n) == UNION { [1..k -> Alphabet] : k \in 0..n }

\* A caller calls EventMessage.create(codec.msg, codec.name).
Create ==
    /\ codec.stage = "args"
    /\ codec' = [codec EXCEPT !.stage = "created",
                              !.text = create(codec.msg, Str(codec.name))]
    /\ UNCHANGED <<listenerVars, limits, regVars, driverVars>>

\* A caller calls EventMessage.fromJSON on the text create() returned.
FromJSON ==
    /\ codec.stage = "created"
    /\ codec' = [codec EXCEPT !.stage = "decoded", !.rec = fromJSON(codec.text)]
    /\ UNCHANGED <<listenerVars, limits, regVars, driverVars>>

InitCodec ==
    /\ ListenerIdle
    /\ RegIdle
    /\ DriverIdle
    /\ \E msg \in Texts(MaxMsgLen), name \in Texts(MaxNameLen) :
           codec = [stage |-> "args", msg |-> msg, name |-> name, text |-> <<>>,
                    rec |-> [ok |-> FALSE, msg |-> Undefined, event_name |-> Undefined]]
    /\ limits = [socks |-> 0, ops |-> 0, reads |-> 0, subs |-> 0, regReads |-> 0,
                 hist |-> FALSE]

NextCodec ==
    \/ Create
    \/ FromJSON

SpecCodec == InitCodec /\ [][NextCodec]_vars

\* The decoders applied to one received line: every text over an alphabet
\* with the characters of both formats, and some longer lines.
LineAlphabet == {"a", ":", " ", "{", "}", "\"", "1"}

SampleLines ==
    { <<"u", "s", "e", "r", "_", "l", "o", "g", "i", "n", ":", "h", "e", "l", "l", "o">>,
      <<"h", "e", "l", "l", "o", ":", "w", "o", "r", "l", "d", ":", "a", "g", "a", "i", "n">>,
      <<"p", "l", "a", "i", "n", " ", "t", "e", "x", "t">>,
      <<"n", "u", "l", "l">>,
      <<"{", "\"", "m", "s", "g", "\"", ":", "\"", "x", "\"", "}">>,
      <<"{", "\"", "m", "s", "g", "\"", ":", "x", "}">> }

LineTexts == UNION { [1..k -> LineAlphabet] : k \in 0..MaxLineLen } \cup SampleLines

\* The decoding step of handleMessage for the line codec.text.
DecodeLine ==
    /\ codec.stage = "line"
    /\ codec' = [codec EXCEPT !.stage = "decoded", !.rec = Decode(codec.text)]
    /\ UNCHANGED <<listenerVars, limits, regVars, driverVars>>

\* A caller calls EventMessage.fromSimpleFormat(codec.text).
SimpleFormat ==
    /\ codec.stage = "line"
    /\ codec' = [codec EXCEPT !.stage = "simple", !.rec = fromSimpleFormat(codec.text)]
    /\ UNCHANGED <<listenerVars, limits, regVars, driverVars>>

InitDecode ==
    /\ ListenerIdle
    /\ RegIdle
    /\ DriverIdle
    /\ \E text \in LineTexts :
           codec = [stage |-> "line", msg |-> <<>>, name |-> <<>>, text |-> text,
                    rec |-> [ok |-> FALSE, msg |-> Undefined, event_name |-> Undefined]]
    /\ limits = [socks |-> 0, ops |-> 0, reads |-> 0, subs |-> 0, regReads |-> 0,
                 hist |-> FALSE]

NextDecode ==
    \/ DecodeLine
    \/ SimpleFormat

SpecDecode == InitDecode /\ [][NextDecode]_vars

\* One send() or sendBatch() call of a driver against any server.
Messages == {<<"m">>, <<"m", "\n">>, <<"m", "\n", "\n">>, <<>>}

Batches == UNION { [1..k -> Messages] : k \in 0..MaxBatch }

InitSend ==
    /\ ListenerIdle
    /\ RegIdle
    /\ DriverIdle
    /\ CodecIdle
    /\ limits = [socks |-> 0, ops |-> 0, reads |-> 0, subs |-> 0, regReads |-> 0,
                 hist |-> FALSE]

NextSend ==
    \/ \E message \in Messages : send(message)
    \/ \E messages \in Batches : sendBatch(messages)
    \/ BatchPause
    \/ SendConnect
    \/ SendWriteOK
    \/ SendWriteFail
    \/ SendLinger
    \/ SendError
    \/ SendTimeout

SpecSend == InitSend /\ [][NextSend]_vars

\* One startEventListener() call of a driver, with or without a registration
\* config, against any registration server and any event bus.
InitDriver ==
    /\ ListenerIdle
    /\ RegIdle
    /\ DriverIdle
    /\ CodecIdle
    /\ limits = [socks |-> MaxDriverSockets, ops |-> 0, reads |-> 0, subs |-> 0,
                 regReads |-> MaxDriverReads, hist |-> FALSE]

NextDriver ==
    \/ \E r \in BOOLEAN, a \in ConsumerAddresses, c \in ConsumerIds, ev \in EventLists :
           startEventListener(r, a, c, ev)
    \/ RegConnect
    \/ \E data \in RegChunks : RegData(data)
    \/ RegError
    \/ RegTimeout
    \/ RegPeerClose
    \/ \E s \in 1..Len(socks) : ConnectOK(s)
    \/ \E s \in 1..Len(socks) : SocketError(s)
    \/ \E s \in 1..Len(socks) : RemoteClose(s)
    \/ \E t \in 1..Len(timers) : TimerFire(t)

SpecDriver == InitDriver /\ [][NextDriver]_vars

\* The startEventListener() and stopEventListener() calls of one driver,
\* without registration, with the socket events of its listener.
InitListeners ==
    /\ ListenerIdle
    /\ RegIdle
    /\ DriverIdle
    /\ CodecIdle
    /\ limits = [socks |-> MaxDriverSockets, ops |-> 0, reads |-> 0, subs |-> 0,
                 regReads |-> 0, hist |-> FALSE]

NextListeners ==
    \/ \E a \in ConsumerAddresses, c \in ConsumerIds :
           startEventListener(FALSE, a, c, <<>>)
    \/ startEventListenerAgain
    \/ stopEventListener
    \/ \E s \in 1..Len(socks) : ConnectOK(s)
    \/ \E s \in 1..Len(socks) : SocketError(s)
    \/ \E s \in 1..Len(socks) : RemoteClose(s)
    \/ \E s \in 1..Len(socks) : CloseEvent(s)
    \/ \E t \in 1..Len(timers) : TimerFire(t)

SpecListeners == InitListeners /\ [][NextListeners]_vars

----------------------------------------------------------------------------
(* Properties of the connection life cycle *)

SockIds == 1..Len(socks)

\* Nothing is in flight: no timer waits, no socket is connecting or waits
\* for its 'close'.
Quiescent ==
    /\ timers = <<>>
    /\ \A s \in SockIds : socks[s].st \in {"open", "closed"}

\* C1: a retry that was waiting out its delay when stop() was called opens
\* no socket when its delay elapses (so it cannot make the listener active).
C1_StopCancelsPendingRetry ==
    \A s \in SockIds : socks[s].origin # "preStop"

\* C2: after stop() on an active listener, the 'close' of the destroyed
\* socket schedules no retry, no retry scheduled after the stop opens a
\* socket, and the listener is not active until the caller calls start().
C2_StoppedStaysStopped ==
    /\ \A i \in 1..Len(timers) : timers[i].mark # "postStop"
    /\ \A s \in SockIds : socks[s].origin # "postStop"
    /\ stopMark = "active" => ~isActive

\* C3: since the last successful connect (or caller start()) at most 5
\* sockets are opened by retry timers, and reconnectAttempts is at most 5.
C3_AtMostFiveRetries ==
    /\ reconnectAttempts <= maxReconnectAttempts
    /\ autoAttempts <= maxReconnectAttempts

\* C4: when the connection attempt of a caller's start() fails, the promise
\* of that start() is rejected and the failure schedules no retry.
C4_FirstFailureNotRetried ==
    \A s \in SockIds :
        (socks[s].origin = "caller" /\ socks[s].err /\ ~socks[s].ever)
            => (socks[s].promise = "rejected" /\ socks[s].sched = 0)

\* C9: at most one socket of the listener is connecting or connected.
C9_SingleSocket ==
    Cardinality({s \in SockIds : Live(s)}) <= 1

\* C10: with no caller action after the first start(): the drop of an
\* established connection (a 'close' or an 'error' not caused by stop())
\* schedules a retry, and once a retry has been accepted and nothing is in
\* flight any more the listener is active.
C10_DropReconnects ==
    callerOps = 1 =>
        /\ \A s \in SockIds :
               (socks[s].ever /\ socks[s].st = "closed") => socks[s].sched >= 1
        /\ (Quiescent /\ \E s \in SockIds :
                            socks[s].origin # "caller" /\ socks[s].st = "open")
               => isActive

\* C19: the n-th retry since the last successful connect is scheduled with
\* a delay of n * 1000 ms, and only after the attempt before it has failed:
\* at most one retry waits, none waits while the attempt of an earlier
\* retry is still connecting, and its delay is 1000 ms times one more than
\* the number of retries made since the last successful connect.
C19_LinearDelays ==
    /\ Len(timers) <= 1
    /\ \A i \in 1..Len(timers) :
           /\ timers[i].delay = reconnectDelay * (autoAttempts + 1)
           /\ \A s \in SockIds :
                  socks[s].origin # "caller" => socks[s].st # "connecting"

----------------------------------------------------------------------------
(* Properties of the data path *)

RECURSIVE Stream(_, _)
\* The bytes received on socket s, in order.
Stream(reads, s) ==
    IF reads = <<>> THEN <<>>
    ELSE (IF Head(reads).sock = s THEN Head(reads).data ELSE <<>>) \o Stream(Tail(reads), s)

RECURSIVE RecordsOf(_, _)
\* The records decoded from socket s, in order.
RecordsOf(recs, s) ==
    IF recs = <<>> THEN <<>>
    ELSE (IF Head(recs).sock = s THEN <<Head(recs).rec>> ELSE <<>>) \o RecordsOf(Tail(recs), s)

\* The lines of a byte stream that have their terminating \n.
CompleteLines(stream) ==
    LET parts == Split(stream, "\n") IN SubSeq(parts, 1, Len(parts) - 1)

\* C5: the records dispatched for a connection are exactly those of the
\* non-blank lines of its byte stream that are terminated by \n, one record
\* per line, however the reads cut the stream; an unterminated tail is not
\* dispatched.
C5_LinesAcrossReads ==
    \A s \in SockIds :
        RecordsOf(decoded, s) = DecodeAll(NonBlank(CompleteLines(Stream(received, s))))

\* The callback invocations and the records of one 'data' step.
NewCalls == SubSeq(delivered', Len(delivered) + 1, Len(delivered'))
NewRecords == SubSeq(decoded', Len(decoded) + 1, Len(decoded'))

\* The callbacks registered in map under the event name of record r and
\* under '*'.
Registered(map, r) ==
    { cb \in Callbacks :
        \E e \in DOMAIN map :
            /\ e = Wildcard \/ (r.event_name.t = "str" /\ e = r.event_name.s)
            /\ \E i \in 1..Len(map[e]) : map[e][i] = cb }

\* Every callback registered for a record of the step is called for it.
AllInvoked ==
    \A k \in 1..Len(NewRecords) :
        \A cb \in Registered(listeners, NewRecords[k].rec) :
            \E i \in 1..Len(NewCalls) :
                /\ NewCalls[i].cb = cb
                /\ NewCalls[i].msg = NewRecords[k].rec.msg
                /\ NewCalls[i].event_name = NewRecords[k].rec.event_name

\* C11: the dispatch of a record with event_name e calls exactly the
\* callbacks registered at that time under e and under '*', each with the
\* record's msg and the record, and no callback of another event name.
C11_DispatchExact ==
    [][ received' # received =>
          /\ AllInvoked
          /\ \A i \in 1..Len(NewCalls) :
                 \E k \in 1..Len(NewRecords) :
                     /\ NewCalls[i].msg = NewRecords[k].rec.msg
                     /\ NewCalls[i].event_name = NewRecords[k].rec.event_name
                     /\ NewCalls[i].cb \in Registered(listeners, NewRecords[k].rec) ]_vars

\* A record of event a was dispatched to a callback while another callback,
\* registered under b only, was not called.
C11_Witness ==
    /\ \E i \in 1..Len(delivered) : delivered[i].event_name = Str(<<"a">>)
    /\ <<"b">> \in DOMAIN listeners
    /\ \E j \in 1..Len(listeners[<<"b">>]) :
           \A i \in 1..Len(delivered) : delivered[i].cb # listeners[<<"b">>][j]

\* C12: when a callback throws during the dispatch of a read, every callback
\* registered for each record of the read (its event name or '*') is still
\* called, the later lines included, and the connection state and the
\* subscriptions are as before the read.
C12_ThrowIsolated ==
    [][ (received' # received /\ \E i \in 1..Len(NewCalls) : NewCalls[i].threw) =>
          /\ AllInvoked
          /\ UNCHANGED <<listeners, socks, socket, isListening, reconnectAttempts, timers>> ]_vars

\* A callback threw and a callback was called after it.
C12_Witness ==
    \E i, j \in 1..Len(delivered) :
        i < j /\ delivered[i].threw /\ ~delivered[j].threw

RECURSIVE InOrder(_, _)
\* The calls go through the records from the first to the last: the calls
\* for a record come before those for every later record.
InOrder(calls, recs) ==
    IF calls = <<>> THEN TRUE
    ELSE IF recs = <<>> THEN FALSE
    ELSE IF /\ Head(calls).msg = Head(recs).rec.msg
            /\ Head(calls).event_name = Head(recs).rec.event_name
         THEN InOrder(Tail(calls), recs)
         ELSE InOrder(calls, Tail(recs))

\* C13: callbacks are invoked in the order in which the lines of their
\* records were received, within a read and across reads.
C13_DispatchInLineOrder ==
    InOrder(delivered, decoded)

\* Calls were made for two different records of one read and for a record
\* of a later read.
C13_Witness ==
    /\ Len(received) >= 2
    /\ \E i, j, k \in 1..Len(delivered) :
           /\ i < j /\ j < k
           /\ delivered[i].event_name = Str(<<"a">>) /\ delivered[i].msg = Str(<<"x">>)
           /\ delivered[j].event_name = Str(<<"b">>)
           /\ delivered[k].msg = Str(<<"z">>)

----------------------------------------------------------------------------
(* Properties of the subscription calls *)

\* Callback cb is registered under event e in map.
Has(map, e, cb) ==
    e \in DOMAIN map /\ \E i \in 1..Len(map[e]) : map[e][i] = cb

\* The callbacks registered under event e in map.
CallbacksOf(map, e) ==
    { cb \in Callbacks : Has(map, e, cb) }

\* The last call was off(e, cb) or the unsubscribe function of on(e, cb).
LastWasOff == lastCall.op \in {"off", "unsubscribe"}

\* C14: getSubscribedEvents() lists exactly the event names with at least
\* one registered callback: no listed name has an empty callback set, and
\* after an off() that removed the last callback of an event the event is
\* not listed.
C14_SubscribedEventsExact ==
    /\ \A e \in getSubscribedEvents : CallbacksOf(listeners, e) # {}
    /\ (LastWasOff /\ CallbacksOf(lastCall.before.listeners, lastCall.e) = {lastCall.cb})
           => lastCall.e \notin getSubscribedEvents

\* off() removed the last callback of an event while another event keeps one.
C14_Witness ==
    /\ lastCall.op = "off"
    /\ CallbacksOf(lastCall.before.listeners, lastCall.e) = {lastCall.cb}
    /\ getSubscribedEvents # {}

\* C15: off(e, cb) and the unsubscribe function of on(e, cb) remove the one
\* callback cb under e: every other registration is kept, and nothing
\* changes when (e, cb) is not registered.
C15_OffRemovesOnlyThat ==
    LastWasOff =>
        /\ \A e \in SubNames, cb \in Callbacks :
               Has(lastCall.after.listeners, e, cb) <=>
                   (Has(lastCall.before.listeners, e, cb) /\ <<e, cb>> # <<lastCall.e, lastCall.cb>>)
        /\ ~Has(lastCall.before.listeners, lastCall.e, lastCall.cb)
               => lastCall.after.listeners = lastCall.before.listeners
        /\ listeners = lastCall.after.listeners

\* The unsubscribe function removed its callback from an event that keeps
\* another one.
C15_Witness ==
    /\ lastCall.op = "unsubscribe"
    /\ Has(lastCall.before.listeners, lastCall.e, lastCall.cb)
    /\ CallbacksOf(listeners, lastCall.e) # {}

\* C16: removeAllListeners(e) removes the callbacks of e and leaves those of
\* every other event; removeAllListeners() removes the callbacks of all events.
C16_RemoveAllOfOneEvent ==
    lastCall.op = "removeAllListeners" =>
        \A e \in SubNames, cb \in Callbacks :
            Has(lastCall.after.listeners, e, cb) <=>
                (lastCall.given /\ e # lastCall.e /\ Has(lastCall.before.listeners, e, cb))

\* The listener's state without its subscriptions.
Connection(snap) ==
    [socks |-> snap.socks, socket |-> snap.socket, isListening |-> snap.isListening,
     isActive |-> snap.isActive, reconnectAttempts |-> snap.reconnectAttempts,
     timers |-> [i \in 1..Len(snap.timers) |-> snap.timers[i].delay]]

\* What stop() does on every call: the socket of the listener is destroyed
\* and given up, the listener is inactive, no subscription is left, and the
\* call returns.
StopEffect ==
    /\ lastCall.before.socket # 0 =>
           lastCall.after.socks[lastCall.before.socket].st \in {"destroyed", "closed"}
    /\ lastCall.after.socket = 0
    /\ ~lastCall.after.isActive /\ ~lastCall.after.isListening
    /\ lastCall.after.listeners = EmptyMap
    /\ lastCall.result = "returned"

\* stop() was called again directly after a stop(), or on a listener that
\* was never started.
StopOnStopped == lastCall.again \/ lastCall.before.socks = <<>>

\* C17 as stated: stop() destroys the socket, makes the listener inactive
\* and removes every subscription; called again, or on a listener that was
\* never started, it changes nothing.
C17_StopAgainChangesNothing ==
    lastCall.op = "stop" =>
        /\ StopEffect
        /\ StopOnStopped =>
               /\ Connection(lastCall.after) = Connection(lastCall.before)
               /\ lastCall.after.listeners = lastCall.before.listeners

\* C17, amended: as stated, except that stop() on a never-started listener
\* still removes the subscriptions made on it; it changes nothing else.
C17_StopIdempotent ==
    lastCall.op = "stop" =>
        /\ StopEffect
        /\ StopOnStopped => Connection(lastCall.after) = Connection(lastCall.before)

\* stop() was called on an active listener that had subscriptions.
C17_Witness ==
    /\ lastCall.op = "stop"
    /\ lastCall.before.isActive
    /\ lastCall.before.listeners # EmptyMap

\* C18: start() on an active listener opens no socket, leaves the socket,
\* the subscriptions and reconnectAttempts as they are, and resolves.
C18_StartWhileActiveNoOp ==
    (lastCall.op = "start" /\ lastCall.before.isActive) =>
        /\ lastCall.after.socks = lastCall.before.socks
        /\ lastCall.after.socket = lastCall.before.socket
        /\ lastCall.after.listeners = lastCall.before.listeners
        /\ lastCall.after.reconnectAttempts = lastCall.before.reconnectAttempts
        /\ lastCall.result = "resolved"

\* start() was called on an active listener that had a subscription.
C18_Witness ==
    /\ lastCall.op = "start"
    /\ lastCall.before.isActive
    /\ lastCall.before.listeners # EmptyMap

----------------------------------------------------------------------------
(* Properties of EventMessage *)

\* The record fromJSON returned has the msg and the event name given to create.
RoundTrip ==
    /\ codec.rec.ok
    /\ codec.rec.msg = Str(codec.msg)
    /\ codec.rec.event_name = Str(codec.name)

\* C20 as stated: for every string msg and every event name, fromJSON of
\* the text of create(msg, name) has that msg and that event name.
C20_RoundTripEveryName ==
    codec.stage = "decoded" => RoundTrip

\* C20, amended: the same for every non-empty event name; for the empty
\* name the msg comes back and the event name comes back as 'default'.
C20_RoundTrip ==
    codec.stage = "decoded" =>
        IF codec.name # <<>>
        THEN RoundTrip
        ELSE /\ codec.rec.ok
             /\ codec.rec.msg = Str(codec.msg)
             /\ codec.rec.event_name = Str(DefaultName)

\* A msg with a quote and a line feed went through create and fromJSON
\* under a non-empty name.
C20_Witness ==
    /\ codec.stage = "decoded"
    /\ codec.msg = <<"\"", "\n">>
    /\ codec.name # <<>>

\* C21: every line that is not blank decodes to a record and decoding
\* raises no error; a line that is not valid structured data is decoded by
\* the simple format.
C21_DecodeTotal ==
    (codec.stage = "decoded" /\ Trim(codec.text) # <<>>) =>
        /\ codec.rec.ok
        /\ ~JSONParse(codec.text).ok => codec.rec = fromSimpleFormat(codec.text)

\* A line that starts like structured data and is malformed was decoded.
C21_Witness ==
    /\ codec.stage = "decoded"
    /\ codec.text = <<"{", "\"", "m", "s", "g", "\"", ":", "x", "}">>
    /\ codec.rec.msg = Str(<<"x", "}">>)

\* The position of the first colon of text, 0 when it has none.
FirstColon(text) ==
    IF \E i \in 1..Len(text) : text[i] = ":"
    THEN CHOOSE i \in 1..Len(text) :
             text[i] = ":" /\ \A j \in 1..(i - 1) : text[j] # ":"
    ELSE 0

\* C22: the simple format splits at the first colon: the trimmed text before
\* it is event_name, the trimmed text after it (further colons included) is
\* msg; without a colon event_name is 'default' and msg the trimmed text.
C22_SimpleFormatFirstColon ==
    codec.stage = "simple" =>
        LET i == FirstColon(codec.text)
        IN IF i = 0
           THEN /\ codec.rec.event_name = Str(DefaultName)
                /\ codec.rec.msg = Str(Trim(codec.text))
           ELSE /\ codec.rec.event_name = Str(Trim(SubSeq(codec.text, 1, i - 1)))
                /\ codec.rec.msg = Str(Trim(SubSeq(codec.text, i + 1, Len(codec.text))))

\* 'hello:world:again' was decoded to hello / 'world:again'.
C22_Witness ==
    /\ codec.stage = "simple"
    /\ codec.text = <<"h", "e", "l", "l", "o", ":", "w", "o", "r", "l", "d", ":", "a", "g", "a", "i", "n">>
    /\ codec.rec.event_name = Str(<<"h", "e", "l", "l", "o">>)
    /\ codec.rec.msg = Str(<<"w", "o", "r", "l", "d", ":", "a", "g", "a", "i", "n">>)

----------------------------------------------------------------------------
(* Properties of the registration client *)

RECURSIVE ReadsText(_)
\* The bytes of a sequence of reads.
ReadsText(reads) ==
    IF reads = <<>> THEN <<>> ELSE Head(reads).data \o ReadsText(Tail(reads))

\* The read that carries the start of the server's answer: the first one
\* received after the command was written.
HasAnswer == \E i \in 1..Len(regReads) : regReads[i].afterCmd

AnswerIndex == CHOOSE i \in 1..Len(regReads) :
                   /\ regReads[i].afterCmd
                   /\ \A j \in 1..(i - 1) : ~regReads[j].afterCmd

\* The first line of the server's answer, when the answer starts a line and
\* that line has been received whole.
AnswerIsLine ==
    /\ HasAnswer
    /\ EndsWith(ReadsText(SubSeq(regReads, 1, AnswerIndex - 1)), <<"\n">>)
    /\ Includes(regReads[AnswerIndex].data, <<"\n">>)

AnswerLine == Split(regReads[AnswerIndex].data, "\n")[1]

\* C6: the command is written once in a session: never twice, and once as
\* soon as the banner has arrived.
C6_CommandWrittenOnce ==
    /\ Len(regWritten) <= 1
    /\ Includes(responseData, Marker) => Len(regWritten) = 1

\* C7: when the server answers the command with a line beginning with OK:,
\* the call has resolved (register() with '<consumer_host>:<consumer_port>')
\* and the socket is destroyed.
C7_OkResolves ==
    (AnswerIsLine /\ StartsWith(AnswerLine, OkPrefix)) =>
        /\ regPromise.state = "resolved"
        /\ regPromise.value = ResolveValue(regCall)
        /\ regSock = "destroyed"

\* C8: when the server answers the command with a line ERROR:<reason>, the
\* call has rejected with the message <reason>, the text after the 6
\* characters of the prefix, and the socket is destroyed.
C8_ErrorRejectsWithReason ==
    (AnswerIsLine /\ StartsWith(AnswerLine, ErrorPrefix)) =>
        /\ regPromise.state = "rejected"
        /\ regPromise.kind = "protocol"
        /\ regPromise.value = SubSeq(AnswerLine, 7, Len(AnswerLine))
        /\ regSock = "destroyed"

\* C23: a socket error or an idle timeout before an OK: or ERROR: line was
\* processed rejects the call; the call stays rejected, and after the
\* timeout the socket is destroyed.
C23_ErrorOrTimeoutRejects ==
    [][ /\ (RegError /\ ~regResolved) =>
               (regPromise'.state = "rejected" /\ regPromise'.kind = "error")
        /\ (RegTimeout /\ ~regResolved) =>
               /\ regPromise'.state = "rejected" /\ regPromise'.kind = "timeout"
               /\ regSock' = "destroyed"
        /\ regPromise.kind \in {"error", "timeout"} =>
               (regPromise' = regPromise /\ regSock' = regSock) ]_vars

\* The call timed out after its command was written.
C23_Witness ==
    /\ regPromise.state = "rejected"
    /\ regPromise.kind = "timeout"
    /\ regSock = "destroyed"
    /\ regWritten # <<>>


\* C35: when an established socket emits 'error' and then 'close', with
\* retries left, one retry is scheduled and reconnectAttempts grows by 1.
C35_OneRetryPerDrop ==
    [][ \A s \in 1..Len(socks) :
          (/\ socks[s].st = "open"
           /\ ~socks[s].err
           /\ socks'[s].err
           /\ reconnectAttempts < maxReconnectAttempts)
            => /\ reconnectAttempts' = reconnectAttempts + 1
               /\ Len(timers') = Len(timers) + 1 ]_vars

(* Properties of the order of the callbacks of one record *)

\* The position of callback cb in the group seq.
Pos(seq, cb) == CHOOSE i \in 1..Len(seq) : seq[i] = cb

\* The group of event e in map, empty when there is none.
Group(map, e) == IF e \in DOMAIN map THEN map[e] ELSE <<>>

\* The group of the event name of record r in map.
NamedGroup(map, r) ==
    IF r.event_name.t = "str" THEN Group(map, r.event_name.s) ELSE <<>>

\* A step keeps the registration order in every group: the callbacks that
\* stay keep their relative order and a callback that joins comes last.
KeepsRegistrationOrder ==
    \A e \in DOMAIN listeners \cup DOMAIN listeners' :
        LET old == Group(listeners, e)
            new == Group(listeners', e)
        IN /\ \A i, j \in 1..Len(new) : i # j => new[i] # new[j]
           /\ \A i, j \in 1..Len(old) :
                  (i < j /\ Has(listeners', e, old[i]) /\ Has(listeners', e, old[j]))
                      => Pos(new, old[i]) < Pos(new, old[j])
           /\ \A i, j \in 1..Len(new) :
                  (Has(listeners, e, new[i]) /\ ~Has(listeners, e, new[j])) => i < j

RECURSIVE NamedThenWildcard(_, _, _)
\* calls are, record after record, the callbacks of the record's group in
\* the order of the group, then the callbacks of the '*' group in the order
\* of that group, each called with the record.
NamedThenWildcard(calls, recs, map) ==
    IF recs = <<>> THEN calls = <<>>
    ELSE LET r == Head(recs).rec
             named == NamedGroup(map, r)
             wild == Group(map, Wildcard)
             n == Len(named) + Len(wild)
         IN /\ Len(calls) >= n
            /\ \A i \in 1..Len(named) : calls[i].cb = named[i]
            /\ \A i \in 1..Len(wild) : calls[Len(named) + i].cb = wild[i]
            /\ \A i \in 1..n :
                   calls[i].msg = r.msg /\ calls[i].event_name = r.event_name
            /\ NamedThenWildcard(SubSeq(calls, n + 1, Len(calls)), Tail(recs), map)

\* C29: the callbacks called for one record are the callbacks registered
\* under its event name, then the callbacks registered under '*', each
\* group in the order in which its callbacks were registered.
C29_NamedBeforeWildcard ==
    [][ /\ KeepsRegistrationOrder
        /\ received' # received => NamedThenWildcard(NewCalls, NewRecords, listeners) ]_vars

\* For a record of event a, a callback registered under a was called and,
\* right after it, a callback registered under '*'.
C29_Witness ==
    \E i \in 1..(Len(delivered) - 1) :
        /\ delivered[i].event_name = Str(<<"a">>)
        /\ delivered[i + 1].event_name = Str(<<"a">>)
        /\ delivered[i + 1].msg = delivered[i].msg
        /\ Has(listeners, <<"a">>, delivered[i].cb)
        /\ ~Has(listeners, Wildcard, delivered[i].cb)
        /\ Has(listeners, Wildcard, delivered[i + 1].cb)
        /\ ~Has(listeners, <<"a">>, delivered[i + 1].cb)

\* Two callbacks of one group, registered g then f, were called g then f.
C29_WitnessGroup ==
    /\ Group(listeners, <<"a">>) = <<"g", "f">>
    /\ \E i \in 1..(Len(delivered) - 1) :
           /\ delivered[i].cb = "g" /\ delivered[i + 1].cb = "f"
           /\ delivered[i].event_name = Str(<<"a">>)
           /\ delivered[i + 1].event_name = Str(<<"a">>)

(* Properties of a successful connection attempt *)

\* C28: when the connect callback of a start() call (a caller's or a
\* retry's) runs with no stop() since the last start(), the listener is
\* active after it and reconnectAttempts
\* is 0; and when a connection established that way drops, the first retry
\* the drop schedules has the delay reconnectDelay and leaves the other
\* maxReconnectAttempts - 1 retries of the budget.
C28_ConnectRestoresBudget ==
    [][ \A s \in 1..Len(socks) :
          /\ (socks[s].st = "connecting" /\ ~socks[s].resolved /\ socks'[s].st = "open"
                /\ stopMark = "none")
                => /\ isActive'
                   /\ reconnectAttempts' = 0
          /\ (socks[s].st = "open" /\ socks[s].promise = "resolved"
                /\ socks'[s].st = "closed" /\ stopMark = "none")
                => /\ Len(timers') > Len(timers)
                   /\ timers'[Len(timers) + 1].delay = reconnectDelay ]_vars

(* Properties of a registration made before start() *)

\* C27: with the callbacks registered by on() before start(): every later
\* step (start(), the connection, a drop, a read) keeps each
\* registration; a step taken with no socket connected calls no callback;
\* and a read calls, for each record it decodes, every callback registered
\* under the record's event name, with the record.
C27_EarlyRegistrationServed ==
    [][ /\ \A e \in DOMAIN listeners :
              /\ e \in DOMAIN listeners'
              /\ \A i \in 1..Len(listeners[e]) :
                     \E j \in 1..Len(listeners'[e]) : listeners'[e][j] = listeners[e][i]
        /\ (\A s \in 1..Len(socks) : socks[s].st # "open") => delivered' = delivered
        /\ received' # received =>
              \A k \in 1..Len(NewRecords) :
                  \A e \in DOMAIN listeners :
                      NewRecords[k].rec.event_name = Str(e) =>
                          \A j \in 1..Len(listeners[e]) :
                              \E i \in 1..Len(NewCalls) :
                                  /\ NewCalls[i].cb = listeners[e][j]
                                  /\ NewCalls[i].msg = NewRecords[k].rec.msg
                                  /\ NewCalls[i].event_name = Str(e) ]_vars

\* A callback registered under a before start() was called for a record of
\* event a read from the connection.
C27_Witness ==
    /\ callerOps = 1
    /\ <<"a">> \in DOMAIN listeners
    /\ \E i \in 1..Len(delivered) :
           /\ delivered[i].event_name = Str(<<"a">>)
           /\ \E j \in 1..Len(listeners[<<"a">>]) : listeners[<<"a">>][j] = delivered[i].cb

(* Properties of send and sendBatch *)

\* C24: the promise of send() is resolved only with the message, ended by a
\* newline, written on the connected socket and the write acknowledged; a
\* connection error, a timeout or a failed write rejects it; the promise
\* keeps the outcome of the first resolve() or reject() call; and once it
\* is settled the socket is destroyed or closed.
C24_SendSettlesOnce ==
    /\ sendCall.promise = "resolved"
         => /\ sendCall.written = <<WithNewline(sendCall.message)>>
            /\ sendCall.write = "ok"
    /\ (sendCall.promise \in {"resolved", "rejected"}) = (sendCall.outcomes # <<>>)
    /\ sendCall.outcomes # <<>>
         => /\ sendCall.promise = sendCall.outcomes[1].state
            /\ sendCall.kind = sendCall.outcomes[1].kind
    /\ \A i \in 1..Len(sendCall.outcomes) :
         sendCall.outcomes[i].state = "rejected" => sendCall.promise = "rejected"
    /\ sendCall.promise \in {"resolved", "rejected"}
         => sendCall.st \in {"destroyed", "closed"}
    /\ \A i \in 1..Len(driver.sent) :
         driver.sent[i].message = <<>> => driver.sent[i].outcome = "rejected"

\* A send whose promise was rejected by an error after the write, and whose
\* 100 ms timer then called resolve().
C24_Witness ==
    /\ Len(sendCall.outcomes) = 2
    /\ sendCall.outcomes[1] = [state |-> "rejected", kind |-> "error"]
    /\ sendCall.outcomes[2].state = "resolved"
    /\ sendCall.st = "closed"

\* A send that was resolved.
C24_WitnessResolved ==
    /\ sendCall.promise = "resolved"
    /\ sendCall.st = "destroyed"

\* C34: what send() writes is the message unchanged when the message ends
\* with a newline, and the message followed by one newline otherwise; it
\* always ends with a newline, and a newline is never added to one.
C34_OneTrailingNewline ==
    \A i \in 1..Len(sendCall.written) :
        LET m == sendCall.message
            w == sendCall.written[i]
        IN /\ w[Len(w)] = "\n"
           /\ m[Len(m)] = "\n" => w = m
           /\ m[Len(m)] # "\n" => (w = m \o <<"\n">> /\ Len(w) = Len(m) + 1)

\* A message that ends with a newline was written as it is.
C34_Witness ==
    /\ sendCall.message = <<"m", "\n">>
    /\ sendCall.written = << <<"m", "\n">> >>

\* A message without a newline was written with one.
C34_WitnessAppended ==
    /\ sendCall.message = <<"m">>
    /\ sendCall.written = << <<"m", "\n">> >>

\* C25: the sends of a sendBatch(messages) call are the messages of the
\* array in order, one at a time: a message is sent only when the send of
\* every message before it has resolved, a socket is connecting or open only
\* for the last message sent, and a send that fails rejects the batch, which
\* sends nothing more.
C25_BatchInOrder ==
    driver.batch # <<>>
      => /\ Len(driver.sent) <= Len(driver.batch)
         /\ \A i \in 1..Len(driver.sent) :
              /\ driver.sent[i].message = driver.batch[i]
              /\ i < Len(driver.sent) => driver.sent[i].outcome = "resolved"
         /\ sendCall.st \in {"connecting", "open"}
              => driver.sent[Len(driver.sent)].outcome = "pending"
         /\ driver.sent[Len(driver.sent)].outcome = "rejected"
              => /\ driver.call = "rejected"
                 /\ ~driver.pause
         /\ driver.call = "rejected"
              => driver.sent[Len(driver.sent)].outcome = "rejected"
         /\ driver.call = "resolved"
              => /\ Len(driver.sent) = Len(driver.batch)
                 /\ driver.sent[Len(driver.sent)].outcome = "resolved"

\* A batch of two messages whose first send has resolved and whose second
\* send is connecting.
C25_Witness ==
    /\ Len(driver.batch) = 2
    /\ Len(driver.sent) = 2
    /\ driver.sent[1].outcome = "resolved"
    /\ sendCall.st = "connecting"

\* A batch of two messages rejected by the failure of its first send.
C25_WitnessRejected ==
    /\ Len(driver.batch) = 2
    /\ Len(driver.sent) = 1
    /\ driver.sent[1].message # <<>>
    /\ driver.call = "rejected"

\* C37: a call that has resolved wrote its command earlier in the session.
C37_SuccessNeedsCommand ==
    regPromise.state = "resolved" => regWritten # <<>>

\* C38: every register(), subscribe() or unsubscribe() call eventually
\* resolves or rejects.
C38_CallSettles ==
    (regCall.kind # "none") ~> (regPromise.state # "pending")

\* C30: whenever the client has written a command, the data accumulated
\* from the server contains the marker REGISTRATION_SERVER, and what it
\* wrote is the command of the call; with no marker in the accumulated data
\* nothing has been written, whatever else the server has sent.
C30_NoCommandBeforeMarker ==
    /\ regWritten # <<>> => Includes(responseData, Marker)
    /\ \A i \in 1..Len(regWritten) : regWritten[i] = regCall.command
    /\ regSock = "connecting" => regWritten = <<>>

\* The banner came in two reads and the command was written after the
\* second of them.
C30_Witness ==
    /\ Len(regReads) = 2
    /\ ~Includes(regReads[1].data, Marker)
    /\ ~regReads[2].afterCmd
    /\ regWritten = <<regCall.command>>

\* The server sent data without the marker and nothing was written.
C30_WitnessSilent ==
    /\ responseData # <<>>
    /\ ~Includes(responseData, Marker)
    /\ regSock = "open"
    /\ regWritten = <<>>

(* Properties of startEventListener *)

\* C26: in a startEventListener call with a registration config, register()
\* is called first; while its promise is pending no EventListener exists
\* and no listener socket is open; a listener socket exists only with the
\* promise of register() resolved; and with that promise rejected the call
\* is rejected, no listener socket was ever created and the eventListener
\* field is what it was.
C26_RegisterBeforeListener ==
    driver.registration
      => /\ regCall.kind = "register"
         /\ driver.call = "registering"
              <=> regPromise.state = "pending"
         /\ regPromise.state = "pending"
              => /\ socks = <<>>
                 /\ ~driver.eventListener
         /\ (socks # <<>> \/ driver.eventListener)
              => /\ regPromise.state = "resolved"
                 /\ driver.call = "starting"
         /\ regPromise.state = "rejected"
              => /\ driver.call = "rejected"
                 /\ socks = <<>>
                 /\ ~driver.eventListener
                 /\ ~isListening

\* A call whose registration succeeded and whose listener then connected.
C26_Witness ==
    /\ driver.registration
    /\ regPromise.state = "resolved"
    /\ driver.eventListener
    /\ isListening

\* A call rejected by a registration the server refused.
C26_WitnessRejected ==
    /\ driver.registration
    /\ regPromise.state = "rejected"
    /\ regPromise.kind = "protocol"
    /\ driver.call = "rejected"

(* Properties of the subscriptions across a reconnect *)

\* C36: a step that is not a subscription call (on, off,
\* removeAllListeners) and not stop() leaves the listeners map as it is,
\* the close of the connection and the retries included; and a read, on
\* the first connection or on one a retry opened, calls every callback
\* registered for each of its records.
C36_SubscriptionsSurvive ==
    [][ /\ (subOps' = subOps /\ ~(callerOps' # callerOps /\ stopMark' # "none"))
              => listeners' = listeners
        /\ received' # received => AllInvoked ]_vars

\* The one subscription call was made before a read on the first
\* connection; that connection closed, a retry connected, and a read on
\* the retry's socket called the callback again.
C36_Witness ==
    /\ subOps = 1
    /\ Len(socks) = 2
    /\ socks[1].st = "closed"
    /\ socks[2].origin # "caller"
    /\ Len(received) = 2
    /\ received[1].sock = 1
    /\ received[2].sock = 2
    /\ Len(delivered) = 2

(* Properties of blank segments *)

RECURSIVE CountNonBlank(_)
\* The number of segments with a character that is not white space.
CountNonBlank(segs) ==
    IF segs = <<>> THEN 0
    ELSE (IF \E i \in 1..Len(Head(segs)) : Head(segs)[i] \notin WhiteSpace THEN 1 ELSE 0)
         + CountNonBlank(Tail(segs))

\* C33: a read gives one record for each of its segments that has a
\* character other than white space, and none for the others: a read
\* whose segments are all empty or white space gives no record and calls
\* no callback, whatever is subscribed.
C33_BlankSegmentsIgnored ==
    [][ received' # received =>
          LET segs == Split(received'[Len(received')].data, "\n")
          IN /\ Len(NewRecords) = CountNonBlank(segs)
             /\ CountNonBlank(segs) = 0 => delivered' = delivered ]_vars

\* With f subscribed to '*' and called for a first read, a second read of
\* white space called nothing.
C33_Witness ==
    /\ Len(received) = 2
    /\ received[2].data = <<" ", "\n">>
    /\ subOps = 1
    /\ Has(listeners, Wildcard, "f")
    /\ Len(delivered) = 1
    /\ Len(decoded) = 1

\* The (event name, callback) pairs of callback cb that record r matches:
\* the pair under the record's event name and the pair under '*'.
PairsFor(map, r, cb) ==
    { ev \in DOMAIN map :
        /\ ev = Wildcard \/ (r.event_name.t = "str" /\ ev = r.event_name.s)
        /\ Has(map, ev, cb) }

\* C40: for each record of a read (the records of one read being
\* different), a callback is called at most once for each (event name,
\* callback) pair it is registered with that the record matches; for a
\* record named '*' that is once for a callback registered under '*'.
C40_OncePerPair ==
    [][ received' # received =>
          \A k \in 1..Len(NewRecords) :
              (\A j \in 1..Len(NewRecords) : j # k => NewRecords[j] # NewRecords[k])
                => \A cb \in Callbacks :
                      Cardinality({ i \in 1..Len(NewCalls) :
                                      /\ NewCalls[i].cb = cb
                                      /\ NewCalls[i].msg = NewRecords[k].rec.msg
                                      /\ NewCalls[i].event_name = NewRecords[k].rec.event_name })
                        <= Cardinality(PairsFor(listeners, NewRecords[k].rec, cb)) ]_vars

(* Properties of the listeners of a driver *)

\* C39: every listener the driver created and replaced in its eventListener
\* field is neither connected nor reconnecting, and with the field cleared
\* by stopEventListener() the last listener is neither connected nor
\* reconnecting.
C39_OneLiveListener ==
    /\ \A i \in 1..Len(driver.replaced) :
           /\ ~driver.replaced[i].connected
           /\ ~driver.replaced[i].reconnecting
    /\ (driver.call = "starting" /\ ~driver.eventListener)
           => (~Connected /\ ~Reconnecting)

(* Properties of the decoding of one line *)

\* C31: a line is decoded by the structured format exactly when it parses
\* to an object (a missing msg gives '', a missing event_name 'default');
\* every other line, a valid value that is not an object included, is
\* decoded by the simple format, so without a colon it gives event_name
\* 'default' and the trimmed line as msg.
C31_StructuredOnlyForObjects ==
    codec.stage = "decoded" =>
        LET p == JSONParse(codec.text)
        IN IF p.ok /\ p.v.t = "obj"
           THEN /\ codec.rec = fromJSON(codec.text)
                /\ Get(p.v, MsgKey) = Undefined => codec.rec.msg = Str(<<>>)
                /\ Get(p.v, EventNameKey) = Undefined
                     => codec.rec.event_name = Str(DefaultName)
           ELSE /\ codec.rec = fromSimpleFormat(codec.text)
                /\ ~Includes(codec.text, <<":">>)
                     => /\ codec.rec.event_name = Str(DefaultName)
                        /\ codec.rec.msg = Str(Trim(codec.text))

\* C32: the record decoded from a line that handleMessage does not filter
\* out as blank has a non-empty event_name.
C32_EventNameNeverEmpty ==
    (codec.stage = "decoded" /\ Trim(codec.text) # <<>>) =>
        /\ codec.rec.event_name # Str(<<>>)
        /\ codec.rec.event_name # Undefined

====
